---------------------------- MODULE Spec2Model ----------------------------
(***************************************************************************)
(* Portfolio chatbot backends (GenAI-Portfolio).                           *)
(*                                                                         *)
(* rag-backend : guardrail -> retrieval -> generation, with SessionMemory  *)
(* backend     : guardrail -> generation over a static portfolio document  *)
(*                                                                         *)
(* Text is modelled as TLA+ strings and processed character by character   *)
(* (Len, SubSeq and \o on strings), so substring tests, lower(), strip()   *)
(* and split() are computed the way the Python code computes them.         *)
(***************************************************************************)
EXTENDS Integers, Sequences, FiniteSets, TLC

VARIABLES
    sessions,       \* SessionMemory._sessions : session id -> list of messages
    appended,       \* history variable: every message appended to a session since it was created or cleared
    ret,            \* value returned by the most recent call (None when the call returns nothing)
    rag_pipeline,   \* rag.py module global _rag_pipeline (None until initialised)
    pc,             \* position of the request being handled
    request,        \* the ChatRequest / SuggestionsRequest being handled
    conversation_history, \* chat(): local conversation_history
    query_vector,   \* _retrieve_context(): local query_vector
    chunks,         \* generate_response(): local chunks
    messages,       \* generate_response(): the message list handed to the language model
    reply,          \* chat(): local reply
    response,       \* what the request handler answered (None while running)
    calls,          \* remote calls made by the request being handled
    failure,        \* the remote call that failed during the request being handled (None when none did)
    nreq,           \* requests received so far
    fn,             \* function applied by the last step of a function harness
    arg,            \* argument of that function
    tasks,          \* the handler coroutines of the chat requests that have arrived
    loop,           \* the task that holds the event-loop thread (0 when the loop is free)
    order,          \* history variable: the tasks in the order the event loop started them
    retriever,      \* retriever.py module global _retriever (the shared ResumeRetriever)
    session_history \* backend/app/main.py module global session_history

memVars == <<sessions, appended>>
chatVars == <<rag_pipeline, pc, request, conversation_history, query_vector, chunks, messages, reply,
              response, calls, failure, nreq>>
pureVars == <<fn, arg>>
raceVars == <<tasks, loop, order>>
extVars == <<tasks, loop, order, retriever, session_history>>
vars == <<sessions, appended, ret, rag_pipeline, pc, request, conversation_history, query_vector,
          chunks, messages, reply, response, calls, failure, nreq, fn, arg,
          tasks, loop, order, retriever, session_history>>

\* Python's None where a string is expected; the empty values of the other slots
None == "None"
NoPipeline == [set |-> FALSE]
NoRequest == [sessionId |-> None, message |-> None]
NoResponse == [status |-> 0, reply |-> None, error |-> None, detail |-> None]
NoFailure == [stage |-> None, exc |-> [class |-> None, msg |-> None]]
NoCalls == [embed |-> 0, query |-> 0, llm |-> 0]
NoRetriever == [set |-> FALSE]

(***************************************************************************)
(* Bounds of the exploration.                                              *)
(***************************************************************************)
MaxAppends == 11        \* add_message calls explored on the first session
MaxOtherAppends == 1    \* add_message calls explored on every other session
MaxChats == 2           \* chat requests explored
MaxMatches == 2         \* matches the vector index returns for one query
MaxItems == 3           \* entries of the array the model returns to a suggestions prompt

(***************************************************************************)
(* Text helpers (Python str methods).                                      *)
(***************************************************************************)
Max(a, b) == IF a >= b THEN a ELSE b
Min(a, b) == IF a <= b THEN a ELSE b

CharAt(s, i) == SubSeq(s, i, i)

UpperCase == "ABCDEFGHIJKLMNOPQRSTUVWXYZ"
LowerCase == "abcdefghijklmnopqrstuvwxyz"

\* str.lower() on one character
LowerOf == [c \in {CharAt(UpperCase, i) : i \in 1..26} |->
               LET i == CHOOSE j \in 1..26 : CharAt(UpperCase, j) = c IN CharAt(LowerCase, i)]

LowerChar(c) == IF c \in DOMAIN LowerOf THEN LowerOf[c] ELSE c

\* str.lower(), character by character (the string is halved to keep the recursion shallow)
RECURSIVE lower(_)
lower(s) ==
    IF Len(s) = 0 THEN ""
    ELSE IF Len(s) = 1 THEN LowerChar(s)
    ELSE LET h == Len(s) \div 2 IN lower(SubSeq(s, 1, h)) \o lower(SubSeq(s, h + 1, Len(s)))

\* Python's `sub in s`
Contains(s, sub) ==
    \E i \in 1..(Len(s) - Len(sub) + 1) : SubSeq(s, i, i + Len(sub) - 1) = sub

Whitespace == {" ", "\n", "\t"}

\* index of the first character at or after i that is in S, 0 when there is none
FirstIn(s, i, S) ==
    IF \E j \in i..Len(s) : CharAt(s, j) \in S
    THEN CHOOSE j \in i..Len(s) : CharAt(s, j) \in S /\ \A m \in i..(j - 1) : CharAt(s, m) \notin S
    ELSE 0

\* index of the first character at or after i that is not in S, Len(s) + 1 when there is none
FirstNotIn(s, i, S) ==
    IF \E j \in i..Len(s) : CharAt(s, j) \notin S
    THEN CHOOSE j \in i..Len(s) : CharAt(s, j) \notin S /\ \A m \in i..(j - 1) : CharAt(s, m) \in S
    ELSE Len(s) + 1

\* index of the last character that is in S, 0 when there is none
LastIn(s, S) ==
    IF \E j \in 1..Len(s) : CharAt(s, j) \in S
    THEN CHOOSE j \in 1..Len(s) : CharAt(s, j) \in S /\ \A m \in (j + 1)..Len(s) : CharAt(s, m) \notin S
    ELSE 0

\* index of the last character that is not in S, 0 when there is none
LastNotIn(s, S) ==
    IF \E j \in 1..Len(s) : CharAt(s, j) \notin S
    THEN CHOOSE j \in 1..Len(s) : CharAt(s, j) \notin S /\ \A m \in (j + 1)..Len(s) : CharAt(s, m) \in S
    ELSE 0

lstrip(s) == SubSeq(s, FirstNotIn(s, 1, Whitespace), Len(s))

rstrip(s) == SubSeq(s, 1, LastNotIn(s, Whitespace))

strip(s) == rstrip(lstrip(s))

(***************************************************************************)
(* rag-backend/app/services/memory.py : SessionMemory                      *)
(*                                                                         *)
(* Each session owns a ConversationBufferWindowMemory(k).  add_message     *)
(* writes to its chat_memory (a plain message list) and get_history reads  *)
(* chat_memory.messages, the full list; the window k is applied only by    *)
(* the memory's load_memory_variables/buffer, which this class never calls.*)
(***************************************************************************)
max_messages_per_session == 10
k == Max(1, max_messages_per_session \div 2)

SessionIds == {"s1", "s2"}
Roles == {"user", "assistant"}

HumanMessage(content) == [type |-> "human", content |-> content]
AIMessage(content) == [type |-> "ai", content |-> content]

\* self._sessions[session_id] on the defaultdict: creates an empty memory when absent
Touch(ss, sid) ==
    IF sid \in DOMAIN ss THEN ss ELSE [s \in DOMAIN ss \cup {sid} |-> IF s = sid THEN <<>> ELSE ss[s]]

\* add_message on a store whose sessions all share one message buffer
add_message_SharedBuffer(ss, sid, role, content) ==
    LET created == Touch(ss, sid)
        msg == IF role = "user" THEN HumanMessage(content) ELSE AIMessage(content) IN
    [s \in DOMAIN created |-> Append(created[s], msg)]

add_message(ss, sid, role, content) ==
    LET created == Touch(ss, sid) IN
    IF role = "user"
    THEN [created EXCEPT ![sid] = Append(@, HumanMessage(content))]
    ELSE IF role = "assistant"
    THEN [created EXCEPT ![sid] = Append(@, AIMessage(content))]
    ELSE created

get_history(ss, sid) == IF sid \notin DOMAIN ss THEN <<>> ELSE ss[sid]

RECURSIVE FormatMessages(_)
FormatMessages(msgs) ==
    IF Len(msgs) = 0 THEN <<>>
    ELSE LET msg == Head(msgs)
             rest == FormatMessages(Tail(msgs)) IN
         IF msg.type = "human" THEN <<[role |-> "user", content |-> msg.content]>> \o rest
         ELSE IF msg.type = "ai" THEN <<[role |-> "assistant", content |-> msg.content]>> \o rest
         ELSE rest

get_history_for_llm(ss, sid) == FormatMessages(get_history(ss, sid))

\* clear_session that leaves the stored messages in place
clear_session_KeepsHistory(ss, sid) == ss

\* clear_session: self._sessions[session_id].clear() when the session exists
clear_session(ss, sid) == IF sid \in DOMAIN ss THEN [ss EXCEPT ![sid] = <<>>] ELSE ss

get_message_count(ss, sid) == IF sid \notin DOMAIN ss THEN 0 ELSE Len(ss[sid])

(***************************************************************************)
(* SessionMemory driven directly through its methods.                      *)
(***************************************************************************)
AppendQuota(sid) == IF sid = "s1" THEN MaxAppends ELSE MaxOtherAppends

\* the content of the n-th message appended to a session names its position
MessageText(n) == "m" \o ToString(n)

\* values of the variables a specification does not use
MemIdle == sessions = <<>> /\ appended = [s \in SessionIds |-> <<>>]
ChatIdle ==
    /\ rag_pipeline = NoPipeline /\ pc = "off" /\ request = NoRequest
    /\ conversation_history = <<>> /\ query_vector = <<>> /\ chunks = <<>> /\ messages = <<>>
    /\ reply = None /\ response = NoResponse /\ calls = NoCalls /\ failure = NoFailure /\ nreq = 0
PureIdle == fn = None /\ arg = None
ExtIdle ==
    /\ tasks = <<>> /\ loop = 0 /\ order = <<>>
    /\ retriever = NoRetriever
    /\ session_history = <<>>

MemInit ==
    /\ sessions = <<>>
    /\ appended = [s \in SessionIds |-> <<>>]
    /\ ret = None
    /\ ChatIdle /\ PureIdle /\ ExtIdle

AddMessage(sid, role) ==
    /\ Len(appended[sid]) < AppendQuota(sid)
    /\ LET content == MessageText(Len(appended[sid]) + 1) IN
        /\ sessions' = add_message(sessions, sid, role, content)
        /\ appended' = [appended EXCEPT ![sid] = Append(@, [role |-> role, content |-> content])]
    /\ ret' = None
    /\ UNCHANGED <<chatVars, pureVars, extVars>>

GetHistoryForLLM(sid) ==
    /\ ret' = get_history_for_llm(sessions, sid)
    /\ UNCHANGED <<memVars, chatVars, pureVars, extVars>>

ClearSession(sid) ==
    /\ sessions' = clear_session(sessions, sid)
    /\ appended' = [appended EXCEPT ![sid] = <<>>]
    /\ ret' = None
    /\ UNCHANGED <<chatVars, pureVars, extVars>>

GetMessageCount(sid) ==
    /\ ret' = get_message_count(sessions, sid)
    /\ UNCHANGED <<memVars, chatVars, pureVars, extVars>>

MemNext ==
    \/ \E sid \in SessionIds, role \in Roles : AddMessage(sid, role)
    \/ \E sid \in SessionIds : GetHistoryForLLM(sid)
    \/ \E sid \in SessionIds : ClearSession(sid)
    \/ \E sid \in SessionIds : GetMessageCount(sid)

SpecMem == MemInit /\ [][MemNext]_vars

\* the window the class configures: k exchanges, two messages each
WindowMessages == 2 * k

\* C1: after N add_message calls on a session, get_history_for_llm returns
\* exactly min(N, cap) entries, and they are the most recently appended
\* ones in their original order.
C1_HistoryCapped ==
    \A sid \in SessionIds :
        LET h == get_history_for_llm(sessions, sid)
            N == Len(appended[sid])
            n == Min(N, WindowMessages) IN
        /\ Len(h) = n
        /\ h = SubSeq(appended[sid], N - n + 1, N)


\* C20: clear_session discards a session's history: immediately afterwards
\* get_history_for_llm returns an empty sequence and get_message_count
\* returns 0, and the messages appended later form a fresh history (stated
\* for histories within the configured window).
C20_ClearDiscardsHistory ==
    \A sid \in SessionIds :
        Len(appended[sid]) <= WindowMessages =>
            /\ get_history_for_llm(sessions, sid) = appended[sid]
            /\ get_message_count(sessions, sid) = Len(appended[sid])

\* a session that had messages has been cleared: it exists and is empty
C20_Witness ==
    /\ "s1" \in DOMAIN sessions
    /\ get_history_for_llm(sessions, "s1") = <<>>
    /\ get_message_count(sessions, "s1") = 0
    /\ get_message_count(sessions, "s2") = 1

(***************************************************************************)
(* rag-backend/app/services/guardrails.py                                  *)
(***************************************************************************)
YAZHINI_KEYWORDS == {
    "experience", "work", "job", "role", "position", "career",
    "project", "projects", "built", "developed", "created",
    "skill", "skills", "technology", "technologies", "tech",
    "angular", "react", "frontend", "backend", "fullstack",
    "python", "javascript", "typescript", "java", "c#",
    "aws", "cloud", "azure", "docker", "kubernetes",
    "database", "sql", "mongodb", "api", "rest",
    "testing", "test", "unit", "integration", "jest", "jasmine",
    "agile", "scrum", "ci/cd", "devops",
    "education", "degree", "university", "college", "gpa",
    "csusb", "california", "bachelor", "masters",
    "course", "courses", "study", "studied",
    "accenture", "tcs", "cognizant", "infosys",
    "resume", "cv", "background", "qualification",
    "achievement", "accomplishment", "responsibility",
    "portfolio", "you", "your", "yazhini", "elanchezhian",
    "tell me about", "what", "how", "when", "where", "why",
    "do you", "did you", "can you", "have you",
    "who are you", "about yourself", "introduce",
    "contact", "email", "phone", "location", "hire" }

question_starters == {"what", "how", "when", "where", "why", "who", "can", "do", "did", "have"}

\* length of the leading run of non-whitespace characters
WordLen(s) == LET j == FirstIn(s, 1, Whitespace) IN IF j = 0 THEN Len(s) ELSE j - 1

\* s.split()[0] if s.split() else ""
FirstWord(s) == LET t == lstrip(s) IN SubSeq(t, 1, WordLen(t))

is_about_yazhini(message) ==
    IF Len(message) = 0 \/ Len(strip(message)) < 3 THEN FALSE
    ELSE LET message_lower == lower(message) IN
         IF \E keyword \in YAZHINI_KEYWORDS : Contains(message_lower, keyword) THEN TRUE
         ELSE IF Contains(message, "?")
                 /\ (Contains(message_lower, "you") \/ Contains(message_lower, "your")) THEN TRUE
         ELSE IF FirstWord(message_lower) \in question_starters THEN TRUE
         ELSE FALSE

get_off_topic_response ==
    "That's outside my scope, but I'd love to tell you about my work. "
    \o "Ask me about my projects, skills, or experience."


(***************************************************************************)
(* rag-backend/app/services/rag.py : configuration and the singleton       *)
(***************************************************************************)
\* a value Python treats as false in `if not value`
Falsy(v) == v = None \/ v = ""

\* the process environment: a variable is unset (None) or set
Envs == [PINECONE_API_KEY : {None, "pc-key"},
         PINECONE_INDEX_NAME : {None, "resume-index"},
         OPENAI_API_KEY : {None, "sk-key"}]

RAG_TOP_K == 5

RAGConfig(env) ==
    [pinecone_api_key |-> env.PINECONE_API_KEY,
     pinecone_index_name |-> env.PINECONE_INDEX_NAME,
     pinecone_namespace |-> "resume-v1",
     embed_model |-> "llama-text-embed-v2",
     rag_top_k |-> RAG_TOP_K,
     openai_api_key |-> env.OPENAI_API_KEY,
     openai_model |-> "gpt-4o-mini"]

\* RAGConfig.validate : <<is_valid, error>>
validate(config) ==
    IF Falsy(config.pinecone_api_key) THEN <<FALSE, "PINECONE_API_KEY is required">>
    ELSE IF Falsy(config.pinecone_index_name) THEN <<FALSE, "PINECONE_INDEX_NAME is required">>
    ELSE IF Falsy(config.openai_api_key) THEN <<FALSE, "OPENAI_API_KEY is required">>
    ELSE <<TRUE, None>>

\* an exception: the class the handlers dispatch on, and str(e)
Exc(class, msg) == [class |-> class, msg |-> msg]

\* what a failing remote call (Pinecone, OpenAI) can raise: a ValueError
\* subclass (invalid argument, undecodable body) or any other Exception
RemoteErrors == {Exc("ValueError", "invalid value"), Exc("Exception", "timed out")}

\* outcome of constructing RAGPipeline(config): the clients are built or the constructor raises
CtorOutcomes == {[kind |-> "ok"]} \cup {[kind |-> "raise", exc |-> e] : e \in RemoteErrors}

SYSTEM_PROMPT == "You are Yazhini Elanchezhian's portfolio assistant"

RAGPipeline(config) == [set |-> TRUE, config |-> config, system_prompt |-> SYSTEM_PROMPT]

\* get_rag_pipeline without the early return: every call builds from the environment
get_rag_pipeline_Reinitialises(singleton, env, ctor) ==
    LET config == RAGConfig(env)
        v == validate(config) IN
    IF ~v[1] THEN [pipeline |-> NoPipeline, error |-> v[2], global |-> NoPipeline]
    ELSE IF ctor.kind = "raise"
    THEN [pipeline |-> NoPipeline,
          error |-> "Failed to initialize RAG pipeline: " \o ctor.exc.msg,
          global |-> NoPipeline]
    ELSE [pipeline |-> RAGPipeline(config), error |-> None, global |-> RAGPipeline(config)]

\* get_rag_pipeline : the pair it returns and the value it leaves in _rag_pipeline
get_rag_pipeline(singleton, env, ctor) ==
    IF singleton # NoPipeline
    THEN [pipeline |-> singleton, error |-> None, global |-> singleton]
    ELSE LET config == RAGConfig(env)
             v == validate(config) IN
         IF ~v[1] THEN [pipeline |-> NoPipeline, error |-> v[2], global |-> NoPipeline]
         ELSE IF ctor.kind = "raise"
         THEN [pipeline |-> NoPipeline,
               error |-> "Failed to initialize RAG pipeline: " \o ctor.exc.msg,
               global |-> NoPipeline]
         ELSE [pipeline |-> RAGPipeline(config), error |-> None, global |-> RAGPipeline(config)]

(***************************************************************************)
(* rag.py : retrieval and context assembly                                 *)
(***************************************************************************)
\* dict.get(key, default) on a mapping modelled as a function
Get(d, key, default) == IF key \in DOMAIN d THEN d[key] ELSE default

\* responses of pc.inference.embed: a vector, an empty vector, an entry
\* without 'values', or an error
EmbedOutcomes ==
    {[kind |-> "embeddings", first |-> [values |-> <<1, 2>>]],
     [kind |-> "embeddings", first |-> [values |-> <<>>]],
     [kind |-> "embeddings", first |-> <<>>]}
    \cup {[kind |-> "raise", exc |-> e] : e \in RemoteErrors}

\* _embed_query : embeddings[0]['values'], a KeyError when the entry has no 'values'
embed_query(outcome) ==
    IF outcome.kind = "raise" THEN [raised |-> TRUE, exc |-> outcome.exc]
    ELSE IF "values" \notin DOMAIN outcome.first
    THEN [raised |-> TRUE, exc |-> Exc("Exception", "'values'")]
    ELSE [raised |-> FALSE, value |-> outcome.first.values]

\* matches of the vector index; the metadata of the second has no text
Matches ==
    {[id |-> "resume-0", score |-> 9,
      metadata |-> [text |-> "Application Engineer at Accenture", source |-> "resume.pdf", chunk_index |-> 3]],
     [id |-> "resume-1", score |-> 8, metadata |-> <<>>]}

RECURSIVE SeqsUpTo(_, _)
SeqsUpTo(S, n) ==
    IF n = 0 THEN {<<>>}
    ELSE LET shorter == SeqsUpTo(S, n - 1) IN
         shorter \cup {Append(q, x) : q \in shorter, x \in S}

\* responses of index.query: a result with matches, a result without the key, or an error
QueryOutcomes ==
    {[kind |-> "results", results |-> [matches |-> ms]] : ms \in SeqsUpTo(Matches, MaxMatches)}
    \cup {[kind |-> "results", results |-> <<>>]}
    \cup {[kind |-> "raise", exc |-> e] : e \in RemoteErrors}

RECURSIVE ExtractChunks(_)
ExtractChunks(ms) ==
    IF Len(ms) = 0 THEN <<>>
    ELSE LET match == Head(ms) IN
         <<[text |-> Get(match.metadata, "text", ""),
            score |-> match.score,
            source |-> Get(match.metadata, "source", "resume"),
            chunk_index |-> Get(match.metadata, "chunk_index", 0)]>>
         \o ExtractChunks(Tail(ms))

NO_CONTEXT == "No relevant resume context found."

RECURSIVE Join(_, _)
Join(sep, parts) ==
    IF Len(parts) = 0 THEN ""
    ELSE IF Len(parts) = 1 THEN parts[1]
    ELSE parts[1] \o sep \o Join(sep, Tail(parts))

\* context_parts of _build_context_string, numbered from `first`
RECURSIVE ContextParts(_, _)
ContextParts(cs, first) ==
    IF Len(cs) = 0 THEN <<>>
    ELSE <<"[Context " \o ToString(first) \o "]\n" \o Head(cs).text \o "\n">>
         \o ContextParts(Tail(cs), first + 1)

\* the labels numbered from 0, as a bare enumerate(chunks) would
build_context_string_FromZero(cs) ==
    IF Len(cs) = 0 THEN NO_CONTEXT
    ELSE Join("\n", ContextParts(cs, 0))

\* _build_context_string
build_context_string(cs) ==
    IF Len(cs) = 0 THEN NO_CONTEXT
    ELSE Join("\n", ContextParts(cs, 1))

(***************************************************************************)
(* rag.py : generate_response                                              *)
(***************************************************************************)
SystemMessage(content) == [type |-> "system", content |-> content]

RECURSIVE HistoryMessages(_)
HistoryMessages(history) ==
    IF Len(history) = 0 THEN <<>>
    ELSE LET msg == Head(history)
             rest == HistoryMessages(Tail(history)) IN
         IF msg.role = "user" THEN <<HumanMessage(msg.content)>> \o rest
         ELSE IF msg.role = "assistant" THEN <<AIMessage(msg.content)>> \o rest
         ELSE rest

UserMessage(context_string, query) ==
    "RESUME CONTEXT:\n" \o context_string \o "\n\nUSER QUESTION: " \o query
    \o "\n\nPlease answer based ONLY on the resume context above. "
    \o "If the context doesn't contain the information, say so clearly."

\* the message list with the prior turns placed after the current question
BuildMessages_HistoryLast(system_prompt, history, context_string, query) ==
    <<SystemMessage(system_prompt)>>
    \o <<HumanMessage(UserMessage(context_string, query))>>
    \o HistoryMessages(history)

\* the message list generate_response builds for llm.invoke
BuildMessages(system_prompt, history, context_string, query) ==
    <<SystemMessage(system_prompt)>>
    \o HistoryMessages(history)
    \o <<HumanMessage(UserMessage(context_string, query))>>

LLMReplies == {"I worked at Accenture as an Application Engineer."}

\* responses of llm.invoke: a completion or an error
LLMOutcomes ==
    {[kind |-> "content", content |-> r] : r \in LLMReplies}
    \cup {[kind |-> "raise", exc |-> e] : e \in RemoteErrors}


(***************************************************************************)
(* rag-backend/app/main.py : the /chat handler.                            *)
(*                                                                         *)
(* The handler is an `async def` that never awaits, so the event loop runs *)
(* one request from its first statement to its response before it starts   *)
(* the next; the steps below are the positions inside that one request.    *)
(***************************************************************************)
ChatMessages ==
    {"What did you do at Accenture?",
     "What is the capital of France?",
     "What's the capital of France?",
     "Sing a song",
     "hi"}

ChatResponse(text) == [status |-> 200, reply |-> text, error |-> None, detail |-> None]

HTTPException(status, error, detail) ==
    [status |-> status, reply |-> None, error |-> error, detail |-> detail]

\* the two except clauses of chat()
HandleException(exc) ==
    IF exc.class = "ValueError"
    THEN HTTPException(500, "Configuration Error", exc.msg)
    ELSE HTTPException(500, "Chat Error", "Failed to generate response: " \o exc.msg)

\* an exception raised at `stage` leaves the try block
Raise(stage, exc) ==
    /\ failure' = [stage |-> stage, exc |-> exc]
    /\ response' = HandleException(exc)
    /\ pc' = "done"

ChatInit ==
    /\ sessions = <<>>
    /\ appended = [s \in SessionIds |-> <<>>]
    /\ ret = None
    /\ rag_pipeline = NoPipeline
    /\ pc = "idle"
    /\ request = NoRequest /\ conversation_history = <<>> /\ query_vector = <<>>
    /\ chunks = <<>> /\ messages = <<>> /\ reply = None /\ response = NoResponse
    /\ calls = NoCalls /\ failure = NoFailure /\ nreq = 0
    /\ PureIdle /\ ExtIdle

\* a request arrives: memory = get_memory()
Chat_Receive(sid, message) ==
    /\ pc \in {"idle", "done"}
    /\ nreq < MaxChats
    /\ nreq' = nreq + 1
    /\ request' = [sessionId |-> sid, message |-> message]
    /\ conversation_history' = <<>> /\ query_vector' = <<>> /\ chunks' = <<>>
    /\ messages' = <<>> /\ reply' = None /\ response' = NoResponse
    /\ calls' = NoCalls /\ failure' = NoFailure
    /\ pc' = "guardrail"
    /\ UNCHANGED <<memVars, ret, rag_pipeline, pureVars, extVars>>

\* Chat_Reject that answers with the redirect and stores nothing
Chat_Reject_RecordsNothing ==
    /\ pc = "guardrail"
    /\ ~is_about_yazhini(request.message)
    /\ response' = ChatResponse(get_off_topic_response)
    /\ pc' = "done"
    /\ UNCHANGED <<memVars, ret, rag_pipeline, request, conversation_history, query_vector, chunks,
                   messages, reply, calls, failure, nreq, pureVars, extVars>>

\* Chat_Reject without its return statement: the handler records the
\* redirect and carries on into the RAG pipeline
Chat_Reject_FallsThrough ==
    /\ pc = "guardrail"
    /\ ~is_about_yazhini(request.message)
    /\ sessions' = add_message(add_message(sessions, request.sessionId, "user", request.message),
                               request.sessionId, "assistant", get_off_topic_response)
    /\ appended' = [appended EXCEPT ![request.sessionId] =
                        @ \o <<[role |-> "user", content |-> request.message],
                               [role |-> "assistant", content |-> get_off_topic_response]>>]
    /\ conversation_history' = get_history_for_llm(sessions', request.sessionId)
    /\ pc' = "pipeline"
    /\ UNCHANGED <<ret, rag_pipeline, request, query_vector, chunks,
                   messages, reply, response, calls, failure, nreq, pureVars, extVars>>

\* if not is_about_yazhini(request.message): record the redirect and return it
Chat_Reject ==
    /\ pc = "guardrail"
    /\ ~is_about_yazhini(request.message)
    /\ LET off_topic_reply == get_off_topic_response IN
        /\ sessions' = add_message(add_message(sessions, request.sessionId, "user", request.message),
                                   request.sessionId, "assistant", off_topic_reply)
        /\ appended' = [appended EXCEPT ![request.sessionId] =
                            @ \o <<[role |-> "user", content |-> request.message],
                                   [role |-> "assistant", content |-> off_topic_reply]>>]
        /\ response' = ChatResponse(off_topic_reply)
    /\ pc' = "done"
    /\ UNCHANGED <<ret, rag_pipeline, request, conversation_history, query_vector, chunks,
                   messages, reply, calls, failure, nreq, pureVars, extVars>>

\* Chat_Accept that reads the history through get_memory, whose
\* subscript on the defaultdict creates the session
Chat_Accept_CreatesSession ==
    /\ pc = "guardrail"
    /\ is_about_yazhini(request.message)
    /\ sessions' = Touch(sessions, request.sessionId)
    /\ conversation_history' = get_history_for_llm(sessions, request.sessionId)
    /\ pc' = "pipeline"
    /\ UNCHANGED <<appended, ret, rag_pipeline, request, query_vector, chunks, messages, reply,
                   response, calls, failure, nreq, pureVars, extVars>>

\* Chat_Accept that starts every turn from an empty history
Chat_Accept_ForgetsHistory ==
    /\ pc = "guardrail"
    /\ is_about_yazhini(request.message)
    /\ conversation_history' = <<>>
    /\ pc' = "pipeline"
    /\ UNCHANGED <<memVars, ret, rag_pipeline, request, query_vector, chunks, messages, reply,
                   response, calls, failure, nreq, pureVars, extVars>>

\* on-topic: conversation_history = memory.get_history_for_llm(sessionId)
Chat_Accept ==
    /\ pc = "guardrail"
    /\ is_about_yazhini(request.message)
    /\ conversation_history' = get_history_for_llm(sessions, request.sessionId)
    /\ pc' = "pipeline"
    /\ UNCHANGED <<memVars, ret, rag_pipeline, request, query_vector, chunks, messages, reply,
                   response, calls, failure, nreq, pureVars, extVars>>

\* generate_rag_response: pipeline, error = get_rag_pipeline(); raise ValueError(error)
Chat_GetPipeline(env, ctor) ==
    /\ pc = "pipeline"
    /\ LET r == get_rag_pipeline(rag_pipeline, env, ctor) IN
        /\ rag_pipeline' = r.global
        /\ IF r.error # None
           THEN Raise("config", Exc("ValueError", r.error))
           ELSE IF r.pipeline = NoPipeline
           THEN Raise("config", Exc("Exception", "RAG pipeline initialization failed"))
           ELSE pc' = "embed" /\ UNCHANGED <<failure, response>>
    /\ UNCHANGED <<memVars, ret, request, conversation_history, query_vector, chunks, messages,
                   reply, calls, nreq, pureVars, extVars>>

\* Chat_Embed that also stores the query in the session memory
Chat_Embed_RecordsQuery(outcome) ==
    /\ pc = "embed"
    /\ calls' = [calls EXCEPT !.embed = @ + 1]
    /\ sessions' = add_message(sessions, request.sessionId, "user", request.message)
    /\ LET r == embed_query(outcome) IN
        IF r.raised
        THEN Raise("embed", r.exc) /\ UNCHANGED query_vector
        ELSE query_vector' = r.value /\ pc' = "query" /\ UNCHANGED <<failure, response>>
    /\ UNCHANGED <<appended, ret, rag_pipeline, request, conversation_history, chunks, messages,
                   reply, nreq, pureVars, extVars>>

\* _retrieve_context: query_vector = self._embed_query(query)
Chat_Embed(outcome) ==
    /\ pc = "embed"
    /\ calls' = [calls EXCEPT !.embed = @ + 1]
    /\ LET r == embed_query(outcome) IN
        IF r.raised
        THEN Raise("embed", r.exc) /\ UNCHANGED query_vector
        ELSE query_vector' = r.value /\ pc' = "query" /\ UNCHANGED <<failure, response>>
    /\ UNCHANGED <<memVars, ret, rag_pipeline, request, conversation_history, chunks, messages,
                   reply, nreq, pureVars, extVars>>

\* Chat_Query that drops the matches whose metadata carries no text
Chat_Query_SkipsTextless(outcome) ==
    /\ pc = "query"
    /\ calls' = [calls EXCEPT !.query = @ + 1]
    /\ IF outcome.kind = "raise"
       THEN Raise("query", outcome.exc) /\ UNCHANGED chunks
       ELSE /\ chunks' = ExtractChunks(SelectSeq(Get(outcome.results, "matches", <<>>),
                                                 LAMBDA match : "text" \in DOMAIN match.metadata))
            /\ pc' = "generate"
            /\ UNCHANGED <<failure, response>>
    /\ UNCHANGED <<memVars, ret, rag_pipeline, request, conversation_history, query_vector,
                   messages, reply, nreq, pureVars, extVars>>

\* Chat_Query that treats a result without matches as an error
Chat_Query_EmptyIsError(outcome) ==
    /\ pc = "query"
    /\ calls' = [calls EXCEPT !.query = @ + 1]
    /\ IF outcome.kind = "raise"
       THEN Raise("query", outcome.exc) /\ UNCHANGED chunks
       ELSE IF Len(Get(outcome.results, "matches", <<>>)) = 0
       THEN Raise("query", Exc("Exception", "no matches")) /\ UNCHANGED chunks
       ELSE /\ chunks' = ExtractChunks(Get(outcome.results, "matches", <<>>))
            /\ pc' = "generate"
            /\ UNCHANGED <<failure, response>>
    /\ UNCHANGED <<memVars, ret, rag_pipeline, request, conversation_history, query_vector,
                   messages, reply, nreq, pureVars, extVars>>

\* _retrieve_context: results = self.index.query(...), then the chunks are extracted
Chat_Query(outcome) ==
    /\ pc = "query"
    /\ calls' = [calls EXCEPT !.query = @ + 1]
    /\ IF outcome.kind = "raise"
       THEN Raise("query", outcome.exc) /\ UNCHANGED chunks
       ELSE /\ chunks' = ExtractChunks(Get(outcome.results, "matches", <<>>))
            /\ pc' = "generate"
            /\ UNCHANGED <<failure, response>>
    /\ UNCHANGED <<memVars, ret, rag_pipeline, request, conversation_history, query_vector,
                   messages, reply, nreq, pureVars, extVars>>

\* backend/app/services/llm.py : the reply generate_reply substitutes for a failed model call
APOLOGY ==
    "I apologize, but I'm having trouble generating a response right now. "
    \o "Please try again in a moment."

\* Chat_Generate that calls the model a second time when the first call fails
Chat_Generate_Retries(outcome) ==
    /\ pc = "generate"
    /\ messages' = BuildMessages(rag_pipeline.system_prompt, conversation_history,
                                 build_context_string(chunks), request.message)
    /\ IF outcome.kind = "raise"
       THEN calls' = [calls EXCEPT !.llm = @ + 2] /\ Raise("llm", outcome.exc) /\ UNCHANGED reply
       ELSE /\ calls' = [calls EXCEPT !.llm = @ + 1]
            /\ reply' = outcome.content /\ pc' = "record" /\ UNCHANGED <<failure, response>>
    /\ UNCHANGED <<memVars, ret, rag_pipeline, request, conversation_history, query_vector,
                   chunks, nreq, pureVars, extVars>>

\* Chat_Generate with the model call wrapped in try/except, as generate_reply
\* of the simple backend does: a failure becomes the apology reply
Chat_Generate_CatchesErrors(outcome) ==
    /\ pc = "generate"
    /\ messages' = BuildMessages(rag_pipeline.system_prompt, conversation_history,
                                 build_context_string(chunks), request.message)
    /\ calls' = [calls EXCEPT !.llm = @ + 1]
    /\ IF outcome.kind = "raise"
       THEN reply' = APOLOGY /\ failure' = [stage |-> "llm", exc |-> outcome.exc]
       ELSE reply' = outcome.content /\ UNCHANGED failure
    /\ pc' = "record"
    /\ UNCHANGED <<memVars, ret, rag_pipeline, request, conversation_history, query_vector,
                   chunks, response, nreq, pureVars, extVars>>

\* generate_response: build the context and the messages, response = self.llm.invoke(messages)
Chat_Generate(outcome) ==
    /\ pc = "generate"
    /\ messages' = BuildMessages(rag_pipeline.system_prompt, conversation_history,
                                 build_context_string(chunks), request.message)
    /\ calls' = [calls EXCEPT !.llm = @ + 1]
    /\ IF outcome.kind = "raise"
       THEN Raise("llm", outcome.exc) /\ UNCHANGED reply
       ELSE reply' = outcome.content /\ pc' = "record" /\ UNCHANGED <<failure, response>>
    /\ UNCHANGED <<memVars, ret, rag_pipeline, request, conversation_history, query_vector,
                   chunks, nreq, pureVars, extVars>>

\* store the exchange in memory and return ChatResponse(reply=reply)
Chat_Record ==
    /\ pc = "record"
    /\ sessions' = add_message(add_message(sessions, request.sessionId, "user", request.message),
                               request.sessionId, "assistant", reply)
    /\ appended' = [appended EXCEPT ![request.sessionId] =
                        @ \o <<[role |-> "user", content |-> request.message],
                               [role |-> "assistant", content |-> reply]>>]
    /\ response' = ChatResponse(reply)
    /\ pc' = "done"
    /\ UNCHANGED <<ret, rag_pipeline, request, conversation_history, query_vector, chunks,
                   messages, reply, calls, failure, nreq, pureVars, extVars>>

ChatNext ==
    \/ \E sid \in SessionIds, message \in ChatMessages : Chat_Receive(sid, message)
    \/ Chat_Reject
    \/ Chat_Accept
    \/ \E env \in Envs, ctor \in CtorOutcomes : Chat_GetPipeline(env, ctor)
    \/ \E outcome \in EmbedOutcomes : Chat_Embed(outcome)
    \/ \E outcome \in QueryOutcomes : Chat_Query(outcome)
    \/ \E outcome \in LLMOutcomes : Chat_Generate(outcome)
    \/ Chat_Record

SpecChat == ChatInit /\ [][ChatNext]_vars


\* the messages of ChatMessages the guardrail accepts
OnTopicMessages == {message \in ChatMessages : is_about_yazhini(message)}

\* a request is being handled, or has just been answered
InRequest == pc \in {"guardrail", "pipeline", "embed", "query", "generate", "record", "done"}

\* C2: whenever the guardrail rejects the message, the reply is the fixed
\* redirect message verbatim, the request succeeds, and no embedding call,
\* no vector-index query and no language-model call is made at any point
\* of that request.
C2_RejectionSkipsRemoteCalls ==
    (InRequest /\ request.message \notin OnTopicMessages) =>
        /\ pc \in {"guardrail", "done"}
        /\ calls = NoCalls
        /\ pc = "done" => response = ChatResponse(get_off_topic_response)

C2_Witness ==
    /\ pc = "done"
    /\ ~is_about_yazhini(request.message)
    /\ response.status = 200
    /\ response.reply = get_off_topic_response

FranceQuestions == {"What's the capital of France?", "What is the capital of France?"}

\* C3: a general-knowledge question such as "What's the capital of France?"
\* is rejected by the guardrail: the request returns success with the fixed
\* redirect message and makes no embedding, retrieval or generation call.
C3_FranceQuestionRejected ==
    (InRequest /\ request.message \in FranceQuestions) =>
        /\ ~is_about_yazhini(request.message)
        /\ calls = NoCalls
        /\ pc = "done" => response = ChatResponse(get_off_topic_response)

C10_RetrievalFailureIsChatError ==
    (pc = "done" /\ failure.stage \in {"embed", "query"}) =>
        /\ response.status = 500
        /\ response.error = "Chat Error"
        /\ response.reply = None


\* the type of message a turn of the given role is replayed as
TypeOfRole(role) == IF role = "user" THEN "human" ELSE "ai"

\* C14: the generator sends the model one ordered message sequence: first
\* the single fixed system instruction, then the session's prior turns,
\* oldest first, with their roles, then exactly one final user entry that
\* contains the context block and the literal current question.
C14_MessageOrder ==
    messages # <<>> =>
        LET h == conversation_history
            n == Len(messages) IN
        /\ n = Len(h) + 2
        /\ messages[1] = SystemMessage(SYSTEM_PROMPT)
        /\ \A i \in 2..n : messages[i].type # "system"
        /\ \A i \in 1..Len(h) :
               /\ messages[i + 1].type = TypeOfRole(h[i].role)
               /\ messages[i + 1].content = h[i].content
        /\ messages[n].type = "human"
        /\ Contains(messages[n].content, build_context_string(chunks))
        /\ Contains(messages[n].content, request.message)
        /\ pc = "record" => h = get_history_for_llm(sessions, request.sessionId)

\* a second turn was generated with the first exchange as history and retrieved chunks as context
C14_Witness ==
    /\ pc = "record"
    /\ Len(messages) = 4
    /\ Len(chunks) > 0
    /\ conversation_history[1].role = "user" /\ conversation_history[2].role = "assistant"
    /\ conversation_history[1].content # request.message

\* the request reached generation: the model answered or failed
ReachedGeneration ==
    \/ pc = "record"
    \/ pc = "done" /\ failure.stage = "llm"
    \/ pc = "done" /\ response.status = 200 /\ request.message \in OnTopicMessages

\* C15: the language model is invoked exactly once per response-generation
\* call: a chat turn that reaches generation makes exactly one model call,
\* and no chat turn makes more than one.
C15_ExactlyOneLLMCall ==
    InRequest => calls.llm = (IF ReachedGeneration THEN 1 ELSE 0)

\* a second turn was answered, and its generation failed after exactly one call
C15_Witness ==
    /\ nreq = 2
    /\ pc = "done"
    /\ failure.stage = "llm"
    /\ calls.llm = 1

\* positions of chat() inside generate_rag_response
GeneratorPositions == {"pipeline", "embed", "query", "generate"}

\* C16: the response generator never mutates session memory: from the read
\* of the history until the generator returns the stored history is
\* unchanged, and the exchange is recorded by the caller after the reply,
\* as the user message followed by the assistant reply.
C16_GeneratorLeavesMemory ==
    /\ [](pc \in GeneratorPositions \cup {"record"} =>
            get_history_for_llm(sessions, request.sessionId) = conversation_history)
    /\ [][/\ pc \in GeneratorPositions => sessions' = sessions
          /\ (pc = "record" /\ pc' = "done") =>
                get_history(sessions', request.sessionId) =
                    get_history(sessions, request.sessionId)
                    \o <<HumanMessage(request.message), AIMessage(reply)>>]_vars

\* a second turn of a session was generated and then recorded after the first exchange
C16_Witness ==
    /\ pc = "done"
    /\ response.status = 200
    /\ is_about_yazhini(request.message)
    /\ Len(conversation_history) = 2
    /\ Len(get_history(sessions, request.sessionId)) = 4
    /\ get_history(sessions, request.sessionId)[4] = AIMessage(reply)

RequiredVariables == {"PINECONE_API_KEY", "PINECONE_INDEX_NAME", "OPENAI_API_KEY"}

\* the required variables an environment leaves unset
Missing(env) == {name \in RequiredVariables : Falsy(env[name])}

\* C17: when required credentials are missing, an in-scope chat request
\* fails as a 5xx configuration error whose detail carries the names of
\* the missing fields.
C17_MissingConfigNamed ==
    [][\A env \in Envs, ctor \in CtorOutcomes :
          (rag_pipeline = NoPipeline /\ Missing(env) # {} /\ Chat_GetPipeline(env, ctor)) =>
              /\ response'.status = 500
              /\ response'.error = "Configuration Error"
              /\ \A name \in Missing(env) : Contains(response'.detail, name)]_vars

\* C18: for the second and every later in-scope turn of a session, the
\* history handed to the generator is the earlier user messages and
\* assistant replies of that session, in chronological order, without the
\* current message.
C18_HistoryCarriesAcrossTurns ==
    pc \in GeneratorPositions \cup {"record"} =>
        conversation_history = appended[request.sessionId]

\* the second turn of a session is being generated with the first exchange as its history
C18_Witness ==
    /\ pc = "generate"
    /\ nreq = 2
    /\ Len(conversation_history) = 2
    /\ conversation_history[1] = [role |-> "user", content |-> "What did you do at Accenture?"]
    /\ conversation_history[2].role = "assistant"
    /\ request.message = "What did you do at Accenture?"

ACCENTURE == "What did you do at Accenture?"

\* C19: for "What did you do at Accenture?" with responsive dependencies the
\* guardrail accepts and the chat operation returns success with a reply,
\* no exception escaping, for every number >= 0 of chunks retrieved.
C19_AccentureSucceeds ==
    /\ []((InRequest /\ request.message = ACCENTURE) =>
            /\ request.message \in OnTopicMessages
            /\ (pc = "done" /\ failure = NoFailure) =>
                   response.status = 200 /\ response.reply = reply /\ reply \in LLMReplies)
    /\ [][request.message = ACCENTURE =>
            /\ (\E env \in Envs, ctor \in CtorOutcomes :
                   Missing(env) = {} /\ ctor.kind = "ok" /\ Chat_GetPipeline(env, ctor)) => pc' = "embed"
            /\ (\E o \in EmbedOutcomes :
                   o.kind = "embeddings" /\ "values" \in DOMAIN o.first /\ Chat_Embed(o)) => pc' = "query"
            /\ (\E o \in QueryOutcomes : o.kind = "results" /\ Chat_Query(o)) => pc' = "generate"
            /\ (\E o \in LLMOutcomes : o.kind = "content" /\ Chat_Generate(o)) => pc' = "record"
            /\ (pc = "record" /\ Chat_Record) => response' = ChatResponse(reply)]_vars

\* the question was answered with success although retrieval returned no chunk
C19_Witness ==
    /\ pc = "done"
    /\ request.message = ACCENTURE
    /\ failure = NoFailure
    /\ calls = [embed |-> 1, query |-> 1, llm |-> 1]
    /\ Len(chunks) = 0
    /\ response.status = 200
    /\ response.reply \in LLMReplies

(***************************************************************************)
(* rag.py : generate_suggested_questions, parsing of the model's answer.   *)
(*                                                                         *)
(* re.search(r'\[.*\]', text, re.DOTALL) and json.loads are computed on    *)
(* the characters of the answer.  The JSON read here is the part the       *)
(* answers of this model use: arrays, strings without escapes, unsigned    *)
(* integers and null.                                                      *)
(***************************************************************************)
fallback_suggestions ==
    <<"Can you tell me about your background?", "What kind of experience do you have?">>

Digits == {"0", "1", "2", "3", "4", "5", "6", "7", "8", "9"}

\* index of the first non-whitespace character at or after i
SkipWs(s, i) == FirstNotIn(s, i, Whitespace)

\* index of the first c at or after i, 0 when there is none
FindChar(s, c, i) == FirstIn(s, i, {c})

\* index of the last c, 0 when there is none
FindLastChar(s, c) == LastIn(s, {c})

\* index after the run of digits that starts at i
DigitsEnd(s, i) == FirstNotIn(s, i, Digits)

\* re.search(r'\[.*\]', text, re.DOTALL): from the first "[" to the last "]"
json_match(text) ==
    LET i == FindChar(text, "[", 1)
        j == FindLastChar(text, "]") IN
    IF i > 0 /\ j > i THEN [found |-> TRUE, group |-> SubSeq(text, i, j)]
    ELSE [found |-> FALSE, group |-> ""]

JsonFail == [ok |-> FALSE, value |-> [type |-> "null", value |-> "null"], next |-> 0]
JsonOk(type, value, next) == [ok |-> TRUE, value |-> [type |-> type, value |-> value], next |-> next]

RECURSIVE ParseValue(_, _)
RECURSIVE ParseItems(_, _, _, _)

\* the JSON value that starts at index i
ParseValue(s, i) ==
    IF i > Len(s) THEN JsonFail
    ELSE IF CharAt(s, i) = "\""
    THEN LET j == FindChar(s, "\"", i + 1) IN
         IF j = 0 THEN JsonFail ELSE JsonOk("str", SubSeq(s, i + 1, j - 1), j + 1)
    ELSE IF CharAt(s, i) \in Digits
    THEN LET j == DigitsEnd(s, i) IN JsonOk("num", SubSeq(s, i, j - 1), j)
    ELSE IF SubSeq(s, i, Min(i + 3, Len(s))) = "null" THEN JsonOk("null", "null", i + 4)
    ELSE IF CharAt(s, i) = "[" THEN ParseItems(s, SkipWs(s, i + 1), <<>>, TRUE)
    ELSE JsonFail

\* the rest of an array whose items so far are acc
ParseItems(s, i, acc, first) ==
    IF i > Len(s) THEN JsonFail
    ELSE IF first /\ CharAt(s, i) = "]" THEN JsonOk("list", acc, i + 1)
    ELSE LET v == ParseValue(s, i) IN
         IF ~v.ok THEN JsonFail
         ELSE LET j == SkipWs(s, v.next) IN
              IF j > Len(s) THEN JsonFail
              ELSE IF CharAt(s, j) = "," THEN ParseItems(s, SkipWs(s, j + 1), Append(acc, v.value), FALSE)
              ELSE IF CharAt(s, j) = "]" THEN JsonOk("list", Append(acc, v.value), j + 1)
              ELSE JsonFail

\* json.loads: one value and nothing but whitespace around it
json_loads(s) ==
    LET v == ParseValue(s, SkipWs(s, 1)) IN
    IF v.ok /\ SkipWs(s, v.next) = Len(s) + 1 THEN v ELSE JsonFail

\* re.sub(r'^\d+[\.\)]\s*', '', s)
strip_numbering(s) ==
    LET j == DigitsEnd(s, 1) IN
    IF j > 1 /\ j <= Len(s) /\ CharAt(s, j) \in {".", ")"}
    THEN lstrip(SubSeq(s, j + 1, Len(s)))
    ELSE s

\* the bullet class of the second re.sub; its other members are not ASCII
BulletChars == {"-"}

strip_bullet(s) ==
    IF Len(s) > 0 /\ CharAt(s, 1) \in BulletChars THEN lstrip(Tail(s)) ELSE s

clean_suggestion(s) == strip_bullet(strip_numbering(strip(s)))

MAX_SUGGESTION_LEN == 120

\* the loop that builds `cleaned`
RECURSIVE CleanAll(_)
CleanAll(items) ==
    IF Len(items) = 0 THEN <<>>
    ELSE LET item == Head(items)
             rest == CleanAll(Tail(items)) IN
         IF item.type = "str"
         THEN LET c == clean_suggestion(item.value) IN
              IF Len(c) <= MAX_SUGGESTION_LEN /\ Len(c) > 0 THEN <<c>> \o rest ELSE rest
         ELSE rest

\* the deduplication key taken as the string itself
s_lower_CaseSensitive(s) == s

\* s_lower = s.lower(), the key `seen` is compared on
s_lower(s) == lower(s)

\* the loop that builds `deduplicated`
RECURSIVE Deduplicate(_, _)
Deduplicate(cleaned, seen) ==
    IF Len(cleaned) = 0 THEN <<>>
    ELSE LET c == Head(cleaned) IN
         IF s_lower(c) \notin seen
         THEN <<c>> \o Deduplicate(Tail(cleaned), seen \cup {s_lower(c)})
         ELSE Deduplicate(Tail(cleaned), seen)

\* EnsureTwo padding from the end of the fallback list
EnsureTwoPadFromEnd(deduplicated) ==
    IF Len(deduplicated) >= 2 THEN SubSeq(deduplicated, 1, 2)
    ELSE LET remaining == 2 - Len(deduplicated) IN
         deduplicated \o SubSeq(fallback_suggestions, 2 - remaining + 1, 2)

\* "Ensure exactly 2 items"
EnsureTwo(deduplicated) ==
    IF Len(deduplicated) >= 2 THEN SubSeq(deduplicated, 1, 2)
    ELSE LET remaining == 2 - Len(deduplicated) IN
         deduplicated \o SubSeq(fallback_suggestions, 1, Min(remaining, 2))

\* everything after llm.invoke: the list returned for the answer `content`
parse_suggestions(content) ==
    LET response_text == strip(content)
        m == json_match(response_text) IN
    IF ~m.found THEN fallback_suggestions
    ELSE LET suggestions == json_loads(m.group) IN
         IF ~suggestions.ok THEN fallback_suggestions
         ELSE IF suggestions.value.type # "list" THEN fallback_suggestions
         ELSE EnsureTwo(Deduplicate(CleanAll(suggestions.value.value), {}))


(***************************************************************************)
(* rag.py : generate_suggested_questions, and main.py : /suggestions       *)
(***************************************************************************)
RECURSIVE Repeat(_, _)
Repeat(s, n) == IF n = 0 THEN "" ELSE s \o Repeat(s, n - 1)

\* entries the model may put in its array, as JSON text: a question, the
\* same question in another case, a numbered one, a bulleted one, a blank
\* one, a number, and questions of 120 and 121 characters
ItemLiterals ==
    {"\"What is your background?\"",
     "\"  what is your background?\"",
     "\"1. Tell me about yourself\"",
     "\"- Can you tell me about your background?\"",
     "\" \"",
     "7",
     "\"" \o Repeat("Why so long", 10) \o "123456789?\"",
     "\"" \o Repeat("Why so long", 11) \o "\""}

ArrayText(items) == "[" \o Join(", ", items) \o "]"

\* answers that are not a bare array
OtherContents ==
    {"I cannot share that.",
     "[not json]",
     "Here are two questions:\n[\"What is your background?\", \"1. Tell me about yourself\"]\nGood luck!",
     "[\"What is your background?\", \"Tell me about yourself\"] (see [1])",
     "[\"What is your background?\", \"Tell me about yourself\",]"}

SuggestionContents ==
    {ArrayText(items) : items \in SeqsUpTo(ItemLiterals, MaxItems)} \cup OtherContents

SuggestLLMOutcomes ==
    {[kind |-> "content", content |-> c] : c \in SuggestionContents}
    \cup {[kind |-> "raise", exc |-> e] : e \in RemoteErrors}

SuggestionsRequests ==
    [last_user_message : {None, "What did you do at Accenture?"},
     conversation_summary : {None, "We talked about skills."}]

\* Python's `a or b` on optional strings
Or(a, b) == IF Falsy(a) THEN b ELSE a

retrieval_query(req) == Or(req.last_user_message, Or(req.conversation_summary, "portfolio overview"))

SUGGESTION_TOP_K == 4

SuggestionsResponse(suggestions) == [status |-> 200, suggestions |-> suggestions]

SuggestInit ==
    /\ MemIdle
    /\ ret = <<>>
    /\ rag_pipeline = NoPipeline
    /\ pc = "idle"
    /\ request = [last_user_message |-> None, conversation_summary |-> None]
    /\ conversation_history = <<>> /\ query_vector = <<>> /\ chunks = <<>> /\ messages = <<>>
    /\ reply = None /\ response = NoResponse /\ calls = NoCalls /\ failure = NoFailure /\ nreq = 0
    /\ PureIdle /\ ExtIdle

\* an error path of generate_suggested_questions: return fallback_suggestions
ReturnFallback(stage, exc) ==
    /\ failure' = [stage |-> stage, exc |-> exc]
    /\ ret' = fallback_suggestions
    /\ response' = SuggestionsResponse(fallback_suggestions)
    /\ pc' = "done"

Suggest_Receive(req) ==
    /\ pc \in {"idle", "done"}
    /\ request' = req
    /\ ret' = <<>> /\ reply' = None /\ response' = NoResponse
    /\ query_vector' = <<>> /\ chunks' = <<>>
    /\ calls' = NoCalls /\ failure' = NoFailure
    /\ pc' = "s_pipeline"
    /\ UNCHANGED <<memVars, rag_pipeline, conversation_history, messages, nreq, pureVars, extVars>>

\* pipeline, error = get_rag_pipeline(); if error or not pipeline: return fallback
Suggest_GetPipeline(env, ctor) ==
    /\ pc = "s_pipeline"
    /\ LET r == get_rag_pipeline(rag_pipeline, env, ctor) IN
        /\ rag_pipeline' = r.global
        /\ IF r.error # None \/ r.pipeline = NoPipeline
           THEN ReturnFallback("config", Exc("ValueError", r.error))
           ELSE pc' = "s_embed" /\ UNCHANGED <<failure, ret, response>>
    /\ UNCHANGED <<memVars, request, conversation_history, query_vector, chunks, messages,
                   reply, calls, nreq, pureVars, extVars>>

\* Suggest_Embed without the enclosing try/except: the error reaches the handler's caller
Suggest_Embed_Propagates(outcome) ==
    /\ pc = "s_embed"
    /\ calls' = [calls EXCEPT !.embed = @ + 1]
    /\ LET r == embed_query(outcome) IN
        IF r.raised
        THEN /\ failure' = [stage |-> "embed", exc |-> r.exc]
             /\ response' = HTTPException(500, "Internal Server Error", r.exc.msg)
             /\ pc' = "done"
             /\ UNCHANGED <<query_vector, ret>>
        ELSE query_vector' = r.value /\ pc' = "s_query" /\ UNCHANGED <<failure, ret, response>>
    /\ UNCHANGED <<memVars, rag_pipeline, request, conversation_history, chunks, messages,
                   reply, nreq, pureVars, extVars>>

\* pipeline._retrieve_context(retrieval_query, top_k=4): the embedding call
Suggest_Embed(outcome) ==
    /\ pc = "s_embed"
    /\ calls' = [calls EXCEPT !.embed = @ + 1]
    /\ LET r == embed_query(outcome) IN
        IF r.raised
        THEN ReturnFallback("embed", r.exc) /\ UNCHANGED query_vector
        ELSE query_vector' = r.value /\ pc' = "s_query" /\ UNCHANGED <<failure, ret, response>>
    /\ UNCHANGED <<memVars, rag_pipeline, request, conversation_history, chunks, messages,
                   reply, nreq, pureVars, extVars>>

\* pipeline._retrieve_context: the index query and the extraction of the chunks
Suggest_Query(outcome) ==
    /\ pc = "s_query"
    /\ calls' = [calls EXCEPT !.query = @ + 1]
    /\ IF outcome.kind = "raise"
       THEN ReturnFallback("query", outcome.exc) /\ UNCHANGED chunks
       ELSE /\ chunks' = ExtractChunks(Get(outcome.results, "matches", <<>>))
            /\ pc' = "s_generate"
            /\ UNCHANGED <<failure, ret, response>>
    /\ UNCHANGED <<memVars, rag_pipeline, request, conversation_history, query_vector,
                   messages, reply, nreq, pureVars, extVars>>

\* the prompt is built from the chunks and response = pipeline.llm.invoke(messages);
\* query_vector and chunks are not read again and are dropped here
Suggest_Generate(outcome) ==
    /\ pc = "s_generate"
    /\ calls' = [calls EXCEPT !.llm = @ + 1]
    /\ query_vector' = <<>> /\ chunks' = <<>>
    /\ IF outcome.kind = "raise"
       THEN ReturnFallback("llm", outcome.exc) /\ UNCHANGED reply
       ELSE reply' = outcome.content /\ pc' = "s_parse" /\ UNCHANGED <<failure, ret, response>>
    /\ UNCHANGED <<memVars, rag_pipeline, request, conversation_history, messages, nreq, pureVars, extVars>>

\* the answer is parsed, cleaned, deduplicated and repaired; get_suggestions returns it
Suggest_Parse ==
    /\ pc = "s_parse"
    /\ ret' = parse_suggestions(reply)
    /\ response' = SuggestionsResponse(ret')
    /\ pc' = "done"
    /\ UNCHANGED <<memVars, rag_pipeline, request, conversation_history, query_vector, chunks,
                   messages, reply, calls, failure, nreq, pureVars, extVars>>

SuggestNext ==
    \/ \E req \in SuggestionsRequests : Suggest_Receive(req)
    \/ \E env \in Envs, ctor \in CtorOutcomes : Suggest_GetPipeline(env, ctor)
    \/ \E outcome \in EmbedOutcomes : Suggest_Embed(outcome)
    \/ \E outcome \in QueryOutcomes : Suggest_Query(outcome)
    \/ \E outcome \in SuggestLLMOutcomes : Suggest_Generate(outcome)
    \/ Suggest_Parse

SpecSuggest == SuggestInit /\ [][SuggestNext]_vars

AnsweredWithArray ==
    /\ pc = "done"
    /\ reply # None
    /\ json_loads(strip(reply)).ok
    /\ json_loads(strip(reply)).value.type = "list"

\* the valid strings of the answer, cleaned, in the order of the array
ValidStrings == CleanAll(json_loads(strip(reply)).value.value)

\* seq without the entries that repeat an earlier entry, compared case-insensitively
RECURSIVE FirstSeenFrom(_, _)
FirstSeenFrom(seq, i) ==
    IF i > Len(seq) THEN <<>>
    ELSE (IF \A j \in 1..(i - 1) : lower(seq[j]) # lower(seq[i]) THEN <<seq[i]>> ELSE <<>>)
         \o FirstSeenFrom(seq, i + 1)

FirstSeen(seq) == FirstSeenFrom(seq, 1)

\* C6 as claimed: for a well-formed array with at least 2 valid strings the
\* result is exactly the first 2 entries of the cleaned list after
\* case-insensitive first-seen deduplication.
C6_FirstTwoOfValid ==
    (AnsweredWithArray /\ Len(ValidStrings) >= 2) =>
        LET d == FirstSeen(ValidStrings) IN
        /\ Len(d) >= 2
        /\ ret = <<d[1], d[2]>>

\* C6 as amended: for a well-formed array with at least 2 valid strings
\* that are distinct under case-insensitive comparison, the result is
\* exactly the first 2 entries of the cleaned list after case-insensitive
\* first-seen deduplication.
C6_FirstTwoOfDistinct ==
    (AnsweredWithArray /\ Len(FirstSeen(ValidStrings)) >= 2) =>
        LET d == FirstSeen(ValidStrings) IN ret = <<d[1], d[2]>>

C6_Witness ==
    /\ AnsweredWithArray
    /\ Len(ValidStrings) = 3
    /\ Len(FirstSeen(ValidStrings)) = 2
    /\ ret = <<ValidStrings[1], ValidStrings[3]>>

\* C7: when parsing and validation yield fewer than 2 usable questions the
\* result is those questions in order followed by items from the start of
\* the fallback list until the length is 2; when there is no bracketed
\* array or the JSON is invalid the result is the fallback list unmodified.
C7_RepairPolicy ==
    (pc = "done" /\ reply # None) =>
        LET m == json_match(strip(reply)) IN
        IF ~m.found \/ ~json_loads(m.group).ok
        THEN ret = <<"Can you tell me about your background?", "What kind of experience do you have?">>
        ELSE LET usable == FirstSeen(CleanAll(json_loads(m.group).value.value)) IN
             Len(usable) < 2 =>
                ret = usable \o SubSeq(fallback_suggestions, 1, 2 - Len(usable))

C7_Witness ==
    /\ pc = "done"
    /\ reply # None
    /\ json_loads(json_match(strip(reply)).group).ok
    /\ Len(FirstSeen(CleanAll(json_loads(json_match(strip(reply)).group).value.value))) = 1
    /\ ret[2] = fallback_suggestions[1]

(***************************************************************************)
(* backend/app/services/guardrails.py : the simple backend's guardrail     *)
(***************************************************************************)
RELEVANT_KEYWORDS ==
    {"yazhini", "elanchezhian",
     "project", "projects", "geoassist", "scholarbot",
     "skill", "skills", "experience", "work", "job", "accenture",
     "education", "degree", "master", "bachelor", "university", "csusb", "sastra",
     "angular", "javascript", "python", "aws", "lambda", "docker",
     "langchain", "langgraph", "arcgis", "streamlit",
     "power bi", "power apps", "power automate",
     ".net", "azure", "cosmos",
     "contact", "email", "phone", "location", "redlands", "california",
     "portfolio", "about you", "tell me", "who are you", "background",
     "resume", "cv", "achievements", "accomplishments"}

IRRELEVANT_TOPICS ==
    {"weather", "news", "politics", "sports", "recipe", "math", "homework",
     "write code", "debug", "fix", "calculate", "solve", "equation",
     "story", "joke", "game", "movie", "music", "celebrity"}

FALLBACK_MESSAGE ==
    "That's outside my scope, but I'd love to tell you about my work. Ask me about my projects, skills, or experience."

\* the greetings listed inline in the short-message rule
greetings == {"hi", "hello", "hey", "thanks", "thank", "ok", "okay"}

\* len(message.split()): the number of maximal runs of non-whitespace
SplitLen(message) ==
    Cardinality({i \in 1..Len(message) :
                    /\ CharAt(message, i) \notin Whitespace
                    /\ (i = 1 \/ CharAt(message, i - 1) \in Whitespace)})

\* the guardrail with the relevant keywords consulted before the irrelevant topics
backend_is_about_yazhini_RelevantFirst(message) ==
    LET message_lower == lower(message) IN
    IF \E keyword \in RELEVANT_KEYWORDS : Contains(message_lower, keyword) THEN TRUE
    ELSE IF \E topic \in IRRELEVANT_TOPICS : Contains(message_lower, topic) THEN FALSE
    ELSE IF SplitLen(message) <= 3
            /\ \E greeting \in greetings : Contains(message_lower, greeting) THEN TRUE
    ELSE FALSE

\* is_about_yazhini of the simple backend
backend_is_about_yazhini(message) ==
    LET message_lower == lower(message) IN
    IF \E topic \in IRRELEVANT_TOPICS : Contains(message_lower, topic) THEN FALSE
    ELSE IF \E keyword \in RELEVANT_KEYWORDS : Contains(message_lower, keyword) THEN TRUE
    ELSE IF SplitLen(message) <= 3
            /\ \E greeting \in greetings : Contains(message_lower, greeting) THEN TRUE
    ELSE FALSE

get_fallback_response == FALLBACK_MESSAGE

(***************************************************************************)
(* The guardrail applied to messages built from a small vocabulary: an     *)
(* irrelevant topic in another case, one inside a longer word, a relevant  *)
(* keyword, a greeting, and the two halves of a two-word topic.            *)
(***************************************************************************)
MaxWords == 4

GuardWords == {"Weather", "prefix", "projects", "hi", "write", "code"}

GuardMessages == {Join(" ", ws) : ws \in SeqsUpTo(GuardWords, MaxWords)}

GuardInit ==
    /\ MemIdle
    /\ rag_pipeline = NoPipeline /\ request = NoRequest /\ conversation_history = <<>>
    /\ query_vector = <<>> /\ chunks = <<>> /\ messages = <<>> /\ reply = None
    /\ response = NoResponse /\ calls = NoCalls /\ failure = NoFailure /\ nreq = 0
    /\ ExtIdle
    /\ pc = "call"
    /\ fn = "is_about_yazhini"
    /\ arg \in GuardMessages
    /\ ret = FALSE

\* the chat handler's call `is_about_yazhini(request.message)`
Guard_Apply ==
    /\ pc = "call"
    /\ ret' = backend_is_about_yazhini(arg)
    /\ pc' = "return"
    /\ UNCHANGED <<memVars, rag_pipeline, request, conversation_history, query_vector, chunks,
                   messages, reply, response, calls, failure, nreq, fn, arg, extVars>>

GuardNext == Guard_Apply

SpecGuard == GuardInit /\ [][GuardNext]_vars

HasIrrelevantTopic(message) == \E topic \in IRRELEVANT_TOPICS : Contains(lower(message), topic)

HasRelevantKeyword(message) == \E keyword \in RELEVANT_KEYWORDS : Contains(lower(message), keyword)

IsShortGreeting(message) ==
    SplitLen(message) <= 3 /\ \E greeting \in greetings : Contains(lower(message), greeting)

\* C8: in the simple backend's guardrail every message that contains an
\* irrelevant-topic substring is answered false, also when it contains a
\* relevant keyword or is a short greeting.
C8_IrrelevantWins ==
    (pc = "return" /\ fn = "is_about_yazhini" /\ HasIrrelevantTopic(arg)) => ret = FALSE

\* a short greeting that names both an irrelevant topic and a relevant keyword was rejected
C8_Witness ==
    /\ pc = "return" /\ fn = "is_about_yazhini"
    /\ HasIrrelevantTopic(arg) /\ HasRelevantKeyword(arg) /\ IsShortGreeting(arg)
    /\ ret = FALSE

(***************************************************************************)
(* _build_context_string applied to chunk lists, repeated and empty texts  *)
(* included.                                                               *)
(***************************************************************************)
MaxChunks == 3

ChunkTexts ==
    {"Application Engineer at Accenture",
     "MS in Computer Science, CSUSB\nGPA 3.9",
     "Built GeoAssist with LangGraph",
     ""}

ChunkLists ==
    SeqsUpTo({[text |-> t, score |-> 9, source |-> "resume", chunk_index |-> 0] : t \in ChunkTexts},
             MaxChunks)

CtxInit ==
    /\ MemIdle
    /\ rag_pipeline = NoPipeline /\ request = NoRequest /\ conversation_history = <<>>
    /\ query_vector = <<>> /\ chunks = <<>> /\ messages = <<>> /\ reply = None
    /\ response = NoResponse /\ calls = NoCalls /\ failure = NoFailure /\ nreq = 0
    /\ ExtIdle
    /\ pc = "call"
    /\ fn = "_build_context_string"
    /\ arg \in ChunkLists
    /\ ret = ""

\* generate_response's call `self._build_context_string(chunks)`
Ctx_Apply ==
    /\ pc = "call"
    /\ ret' = build_context_string(arg)
    /\ pc' = "return"
    /\ UNCHANGED <<memVars, rag_pipeline, request, conversation_history, query_vector, chunks,
                   messages, reply, response, calls, failure, nreq, fn, arg, extVars>>

CtxNext == Ctx_Apply

SpecCtx == CtxInit /\ [][CtxNext]_vars

\* positions in s where a context label opens
LabelStarts(s) == {p \in 1..Len(s) : p + 8 <= Len(s) /\ SubSeq(s, p, p + 8) = "[Context "}

\* the i-th smallest element of a set of positions
Nth(P, i) == CHOOSE p \in P : Cardinality({q \in P : q < p}) = i - 1

\* C9: _build_context_string of an empty list is the non-empty sentinel; of k
\* chunks it is a string with exactly k labels, the i-th label reading
\* "[Context i]" and heading the text of the i-th chunk, in input order.
C9_ContextLabels ==
    (pc = "return" /\ fn = "_build_context_string") =>
        IF Len(arg) = 0
        THEN ret = "No relevant resume context found." /\ Len(ret) > 0
        ELSE /\ Cardinality(LabelStarts(ret)) = Len(arg)
             /\ \A i \in 1..Len(arg) :
                    LET p == Nth(LabelStarts(ret), i)
                        headed == "[Context " \o ToString(i) \o "]\n" \o arg[i].text \o "\n" IN
                    /\ p + Len(headed) - 1 <= Len(ret)
                    /\ SubSeq(ret, p, p + Len(headed) - 1) = headed

\* three chunks, two of them with the same text and one with no text, were labelled
C9_Witness ==
    /\ pc = "return" /\ fn = "_build_context_string"
    /\ Len(arg) = 3 /\ arg[1].text = arg[3].text /\ arg[1].text # "" /\ arg[2].text = ""
    /\ Cardinality(LabelStarts(ret)) = 3

(***************************************************************************)
(* Racing chat requests on the event loop.                                 *)
(*                                                                         *)
(* FastAPI runs each `async def chat` call as a task on the one event-loop *)
(* thread.  A task keeps the thread until it awaits or returns; chat()     *)
(* contains no await (generate_rag_response and every client call in it    *)
(* are ordinary blocking calls), so AwaitPoints is empty.                  *)
(***************************************************************************)
MaxTasks == 2

TaskIds == 1..MaxTasks

RaceMessages == {"What did you do at Accenture?", "Sing a song"}

\* positions of chat() at which the coroutine awaits
AwaitPoints_BetweenAppends == {"record_reply"}

AwaitPoints == {}

\* a task may take a step when it holds the thread, or resumes from an await on a free loop
Runs(t) == loop = t \/ (loop = 0 /\ tasks[t].pc \in AwaitPoints)

\* the holder of the thread after a task has moved to position p
Holder(t, p) == IF p \in AwaitPoints \cup {"done"} THEN 0 ELSE t

RaceInit ==
    /\ MemIdle /\ ChatIdle /\ PureIdle
    /\ ret = None
    /\ retriever = NoRetriever /\ session_history = <<>>
    /\ tasks \in [TaskIds -> [pc : {"pending"},
                              request : [sessionId : SessionIds, message : RaceMessages],
                              conversation_history : {<<>>},
                              reply : {None},
                              response : {NoResponse}]]
    /\ loop = 0
    /\ order = <<>>

\* the event loop starts the handler of a request that has arrived: memory = get_memory()
Race_Start(t) ==
    /\ loop = 0
    /\ tasks[t].pc = "pending"
    /\ tasks' = [tasks EXCEPT ![t].pc = "guardrail"]
    /\ loop' = Holder(t, "guardrail")
    /\ order' = Append(order, t)
    /\ UNCHANGED <<memVars, ret, chatVars, pureVars, retriever, session_history>>

\* the guardrail check, and for an accepted message the read of the history
Race_Guardrail(t) ==
    /\ Runs(t)
    /\ tasks[t].pc = "guardrail"
    /\ LET T == tasks[t] IN
        IF ~is_about_yazhini(T.request.message)
        THEN /\ tasks' = [tasks EXCEPT ![t].reply = get_off_topic_response, ![t].pc = "record_user"]
             /\ loop' = Holder(t, "record_user")
        ELSE /\ tasks' = [tasks EXCEPT
                             ![t].conversation_history = get_history_for_llm(sessions, T.request.sessionId),
                             ![t].pc = "generate"]
             /\ loop' = Holder(t, "generate")
    /\ UNCHANGED <<memVars, ret, chatVars, pureVars, order, retriever, session_history>>

\* reply = generate_rag_response(...): the blocking remote calls return a reply or raise
Race_Generate(t, outcome) ==
    /\ Runs(t)
    /\ tasks[t].pc = "generate"
    /\ IF outcome.kind = "raise"
       THEN /\ tasks' = [tasks EXCEPT ![t].response = HandleException(outcome.exc), ![t].pc = "done"]
            /\ loop' = Holder(t, "done")
       ELSE /\ tasks' = [tasks EXCEPT ![t].reply = outcome.content, ![t].pc = "record_user"]
            /\ loop' = Holder(t, "record_user")
    /\ UNCHANGED <<memVars, ret, chatVars, pureVars, order, retriever, session_history>>

\* memory.add_message(request.sessionId, "user", request.message)
Race_RecordUser(t) ==
    /\ Runs(t)
    /\ tasks[t].pc = "record_user"
    /\ sessions' = add_message(sessions, tasks[t].request.sessionId, "user", tasks[t].request.message)
    /\ tasks' = [tasks EXCEPT ![t].pc = "record_reply"]
    /\ loop' = Holder(t, "record_reply")
    /\ UNCHANGED <<appended, ret, chatVars, pureVars, order, retriever, session_history>>

\* memory.add_message(request.sessionId, "assistant", reply); return ChatResponse(reply=reply)
Race_RecordReply(t) ==
    /\ Runs(t)
    /\ tasks[t].pc = "record_reply"
    /\ sessions' = add_message(sessions, tasks[t].request.sessionId, "assistant", tasks[t].reply)
    /\ tasks' = [tasks EXCEPT ![t].response = ChatResponse(tasks[t].reply), ![t].pc = "done"]
    /\ loop' = Holder(t, "done")
    /\ UNCHANGED <<appended, ret, chatVars, pureVars, order, retriever, session_history>>

RaceNext ==
    \/ \E t \in TaskIds : Race_Start(t)
    \/ \E t \in TaskIds : Race_Guardrail(t)
    \/ \E t \in TaskIds, outcome \in LLMOutcomes : Race_Generate(t, outcome)
    \/ \E t \in TaskIds : Race_RecordUser(t)
    \/ \E t \in TaskIds : Race_RecordReply(t)

SpecRace == RaceInit /\ [][RaceNext]_vars

\* what the requests started in the order `ord` have recorded for session sid,
\* each exchange whole and in that order
RECURSIVE ExchangesOf(_, _)
ExchangesOf(ord, sid) ==
    IF Len(ord) = 0 THEN <<>>
    ELSE LET T == tasks[Head(ord)]
             own == IF T.request.sessionId # sid THEN <<>>
                    ELSE IF T.pc = "record_reply" THEN <<HumanMessage(T.request.message)>>
                    ELSE IF T.pc = "done" /\ T.response.status = 200
                    THEN <<HumanMessage(T.request.message), AIMessage(T.response.reply)>>
                    ELSE <<>> IN
         own \o ExchangesOf(Tail(ord), sid)

\* C11: when chat requests of one session race, the session's history is the
\* exchanges of the requests in the order they were processed, each user
\* message immediately followed by the reply of the same request, with no
\* message lost and none of another request in between.
C11_RacingRequestsSerialized ==
    \A sid \in SessionIds : get_history(sessions, sid) = ExchangesOf(order, sid)

\* two requests of one session raced, the second was processed first, both were recorded
C11_Witness ==
    /\ order = <<2, 1>>
    /\ tasks[1].request.sessionId = tasks[2].request.sessionId
    /\ tasks[1].request.message # tasks[2].request.message
    /\ \A t \in {1, 2} : tasks[t].pc = "done" /\ tasks[t].response.status = 200
    /\ Len(get_history(sessions, tasks[1].request.sessionId)) = 4

\* C12: while a chat request of one session waits on a remote call, a chat
\* request of another session that has arrived can be started.
C12_OtherSessionNotBlocked ==
    \A a \in TaskIds, b \in TaskIds :
        (/\ tasks[a].pc = "generate"
         /\ tasks[b].pc = "pending"
         /\ tasks[a].request.sessionId # tasks[b].request.sessionId)
        => ENABLED Race_Start(b)

(***************************************************************************)
(* rag-backend/app/services/retriever.py and the /rag/search endpoint.     *)
(*                                                                         *)
(* _retriever is the shared ResumeRetriever; its LangChain retriever is    *)
(* created once with search_kwargs = {"k": 5}.                             *)
(***************************************************************************)
MaxSearches == 2        \* search requests explored
MaxTopK == 6            \* largest top_k a search request asks for

RetrieverConfig(env) ==
    [api_key |-> env.PINECONE_API_KEY,
     index_name |-> env.PINECONE_INDEX_NAME,
     namespace |-> "resume-v1",
     embed_model |-> "llama-text-embed-v2"]

\* RetrieverConfig.validate : <<is_valid, error>>
retriever_validate(config) ==
    IF Falsy(config.api_key) THEN <<FALSE, "PINECONE_API_KEY environment variable is missing">>
    ELSE IF Falsy(config.index_name) THEN <<FALSE, "PINECONE_INDEX_NAME environment variable is missing">>
    ELSE <<TRUE, None>>

\* ResumeRetriever.__init__ : self.retriever = self.vectorstore.as_retriever(search_kwargs={"k": 5})
ResumeRetriever(config) == [set |-> TRUE, config |-> config, search_kwargs |-> [k |-> 5]]

\* get_retriever() of the module: the pair it returns and the value it leaves in _retriever
get_retriever(singleton, env, ctor) ==
    IF singleton # NoRetriever
    THEN [retriever |-> singleton, error |-> None, global |-> singleton]
    ELSE LET config == RetrieverConfig(env)
             v == retriever_validate(config) IN
         IF ~v[1] THEN [retriever |-> NoRetriever, error |-> v[2], global |-> NoRetriever]
         ELSE IF ctor.kind = "raise"
         THEN [retriever |-> NoRetriever,
               error |-> "Failed to initialize Pinecone retriever: " \o ctor.exc.msg,
               global |-> NoRetriever]
         ELSE [retriever |-> ResumeRetriever(config), error |-> None, global |-> ResumeRetriever(config)]

\* retrieve(): if top_k != 5: self.retriever.search_kwargs = {"k": top_k}
retrieve_search_kwargs(self, top_k) ==
    IF top_k # 5 THEN [self EXCEPT !.search_kwargs = [k |-> top_k]] ELSE self

\* documents the vector store can return, with their scores
Documents ==
    {[page_content |-> "Application Engineer at Accenture", score |-> 9,
      metadata |-> [id |-> "resume-0", text |-> "Application Engineer at Accenture"]],
     [page_content |-> "MS in Computer Science, CSUSB", score |-> 8, metadata |-> <<>>]}

\* {k: v for k, v in doc.metadata.items() if k != 'text'}
WithoutText(metadata) == [key \in DOMAIN metadata \ {"text"} |-> metadata[key]]

\* the matches retrieve() builds from the search results
RECURSIVE FormatMatches(_)
FormatMatches(results) ==
    IF Len(results) = 0 THEN <<>>
    ELSE LET doc == Head(results) IN
         <<[id |-> Get(doc.metadata, "id", ""),
            score |-> doc.score,
            text |-> doc.page_content,
            metadata |-> WithoutText(doc.metadata)]>>
         \o FormatMatches(Tail(results))

\* responses of vectorstore.similarity_search_with_score(query, k): documents or an error
SearchOutcomes ==
    {[kind |-> "results", results |-> ds] : ds \in SeqsUpTo(Documents, MaxMatches)}
    \cup {[kind |-> "raise", exc |-> e] : e \in RemoteErrors}

SearchRequests == [query : {"Accenture experience"}, top_k : 1..MaxTopK]

SearchResponse(query, matches) ==
    [status |-> 200, query |-> query, matches |-> matches, count |-> Len(matches)]

\* the two except clauses of search_resume()
HandleSearchException(exc) ==
    IF exc.class = "ValueError"
    THEN HTTPException(500, "Configuration Error", exc.msg)
    ELSE HTTPException(500, "Search Error", "Failed to search resume: " \o exc.msg)

SearchInit ==
    /\ MemIdle /\ PureIdle
    /\ ret = <<>>
    /\ rag_pipeline = NoPipeline /\ conversation_history = <<>> /\ query_vector = <<>>
    /\ chunks = <<>> /\ messages = <<>> /\ reply = None /\ calls = NoCalls /\ failure = NoFailure
    /\ tasks = <<>> /\ loop = 0 /\ order = <<>> /\ session_history = <<>>
    /\ retriever = NoRetriever
    /\ pc = "r_idle"
    /\ request = [query |-> None, top_k |-> 0]
    /\ response = NoResponse
    /\ nreq = 0

\* a search request arrives
Search_Receive(req) ==
    /\ pc \in {"r_idle", "r_done"}
    /\ nreq < MaxSearches
    /\ nreq' = nreq + 1
    /\ request' = req
    /\ response' = NoResponse
    /\ ret' = <<>>
    /\ pc' = "r_get"
    /\ UNCHANGED <<memVars, rag_pipeline, conversation_history, query_vector, chunks, messages, reply,
                   calls, failure, pureVars, raceVars, retriever, session_history>>

\* retrieve_resume_context: retriever, error = get_retriever(); raise ValueError(error)
Search_GetRetriever(env, ctor) ==
    /\ pc = "r_get"
    /\ LET r == get_retriever(retriever, env, ctor) IN
        /\ retriever' = r.global
        /\ IF r.error # None
           THEN response' = HandleSearchException(Exc("ValueError", r.error)) /\ pc' = "r_done"
           ELSE IF r.retriever = NoRetriever
           THEN /\ response' = HandleSearchException(Exc("Exception", "Retriever initialization failed"))
                /\ pc' = "r_done"
           ELSE pc' = "r_retrieve" /\ UNCHANGED response
    /\ UNCHANGED <<memVars, ret, rag_pipeline, request, conversation_history, query_vector, chunks,
                   messages, reply, calls, failure, nreq, pureVars, raceVars, session_history>>

\* retriever.retrieve(query, top_k): the search parameters, the search, the matches
Search_Retrieve(outcome) ==
    /\ pc = "r_retrieve"
    /\ outcome.kind = "results" => Len(outcome.results) <= request.top_k
    /\ retriever' = retrieve_search_kwargs(retriever, request.top_k)
    /\ IF outcome.kind = "raise"
       THEN response' = HandleSearchException(outcome.exc) /\ UNCHANGED ret
       ELSE LET matches == FormatMatches(outcome.results) IN
            ret' = matches /\ response' = SearchResponse(request.query, matches)
    /\ pc' = "r_done"
    /\ UNCHANGED <<memVars, rag_pipeline, request, conversation_history, query_vector, chunks,
                   messages, reply, calls, failure, nreq, pureVars, raceVars, session_history>>

SearchNext ==
    \/ \E req \in SearchRequests : Search_Receive(req)
    \/ \E env \in Envs, ctor \in CtorOutcomes : Search_GetRetriever(env, ctor)
    \/ \E outcome \in SearchOutcomes : Search_Retrieve(outcome)

SpecSearch == SearchInit /\ [][SearchNext]_vars

\* C13: the shared clients are read-only after initialisation; in particular
\* the shared retriever's search parameters are the same before and after
\* every retrieve call, whatever top_k the call was made with.
C13_SharedRetrieverReadOnly ==
    [][retriever.set => retriever' = retriever]_vars

\* C28: the two suggestions returned by generate_suggested_questions are
\* always distinct from each other under case-insensitive comparison,
\* including when the result was padded from the fallback list.
C28_SuggestionsDistinct ==
    (pc = "done" /\ Len(ret) = 2) => lower(ret[1]) # lower(ret[2])

\* C29: a turn rejected by the RAG guardrail is still recorded in the
\* session history, user message then redirect reply, so a later in-scope
\* turn of the session replays it to the model: the messages of every model
\* call carry, between the system prompt and the current question, all that
\* the session has stored.
C29_RejectedTurnReplayed ==
    /\ [][(pc = "guardrail" /\ request.message \notin OnTopicMessages /\ pc' = "done") =>
            get_history(sessions', request.sessionId) =
                get_history(sessions, request.sessionId)
                \o <<HumanMessage(request.message), AIMessage(get_off_topic_response)>>]_vars
    /\ [](pc = "record" =>
            /\ Len(messages) = Len(get_history(sessions, request.sessionId)) + 2
            /\ SubSeq(messages, 2, Len(messages) - 1) = get_history(sessions, request.sessionId))

\* the model was called for the second turn of a session whose first turn was rejected
C29_Witness ==
    /\ pc = "record"
    /\ nreq = 2
    /\ request.message = ACCENTURE
    /\ Len(messages) = 4
    /\ messages[2] = HumanMessage("Sing a song")
    /\ messages[3] = AIMessage(get_off_topic_response)

\* the history and the message count of a session are the same after a step
SessionUntouched(sid) ==
    /\ get_history(sessions', sid) = get_history(sessions, sid)
    /\ get_message_count(sessions', sid) = get_message_count(sessions, sid)

\* C27: sessions are isolated from each other: add_message and
\* clear_session on one sessionId never change the history or the message
\* count of any other session, and the read operations (get_history through
\* get_history_for_llm, get_message_count) change no session's history.
C27_SessionsIsolated ==
    [][/\ \A sid \in SessionIds :
            \* the operation was a write to sid: an append or a clear
            appended'[sid] # appended[sid] =>
                \A other \in SessionIds \ {sid} : SessionUntouched(other)
       /\ \* the operation was a read
          appended' = appended =>
                \A any \in SessionIds : SessionUntouched(any)]_vars

\* two messages were appended to one session while the other kept its single message
C27_Witness ==
    /\ DOMAIN sessions = SessionIds
    /\ Len(sessions["s2"]) = 1
    /\ sessions["s2"][1].content = MessageText(1)
    /\ Len(sessions["s1"]) = 2
    /\ Len(appended["s1"]) = 2

(***************************************************************************)
(* Further properties of the RAG chat handler.                             *)
(***************************************************************************)
\* C23: the embedding step fails when the embedding service returns a
\* malformed or empty vector: _retrieve_context raises and the vector index
\* is never queried with such a vector, so whenever the index is about to be
\* queried or has been queried the query vector is non-empty.
C23_EmptyVectorNeverQueried ==
    (pc = "query" \/ calls.query > 0) => Len(query_vector) > 0

\* C24: a match whose metadata has no text yields a chunk with the empty
\* string as text and is not an error; the chunk list has one chunk per raw
\* match, in the order the index returned them.
C24_ChunkPerMatch ==
    [][\A outcome \in QueryOutcomes :
          (outcome.kind = "results" /\ Chat_Query(outcome)) =>
              LET ms == Get(outcome.results, "matches", <<>>) IN
              /\ pc' = "generate"
              /\ failure' = NoFailure
              /\ Len(chunks') = Len(ms)
              /\ \A i \in 1..Len(ms) :
                    /\ chunks'[i].score = ms[i].score
                    /\ chunks'[i].text =
                          IF "text" \in DOMAIN ms[i].metadata THEN ms[i].metadata.text ELSE ""]_vars

\* the index returned the match without text first and the one with text second
C24_Witness ==
    /\ pc = "generate"
    /\ calls.query = 1
    /\ Len(chunks) = 2
    /\ chunks[1].text = "" /\ chunks[1].score = 8
    /\ chunks[2].text = "Application Engineer at Accenture" /\ chunks[2].score = 9

\* C26: a RAG chat request that fails (configuration error, embedding or
\* retrieval failure, model failure) leaves session memory exactly as it was
\* before the request: every step of the handler other than the one that
\* completes a request successfully leaves the store unchanged, so nothing
\* is recorded and no entry is created for an unseen sessionId.
C26_FailedRequestLeavesMemory ==
    [][(pc' # "done" \/ response'.status = 500) => sessions' = sessions]_vars

\* the first request of a session failed at the model call and the store has no entry
C26_Witness ==
    /\ pc = "done"
    /\ nreq = 1
    /\ response.status = 500
    /\ failure.stage = "llm"
    /\ request.sessionId \notin DOMAIN sessions

(***************************************************************************)
(* backend/app/main.py and backend/app/services/llm.py : the /chat handler *)
(* of the simple backend, which keeps each session's history as a list of  *)
(* role/content dicts in the module-level dict session_history.            *)
(***************************************************************************)
MAX_HISTORY_PER_SESSION == 20

MaxExchanges == 11      \* accepted requests explored on the first session
MaxOtherExchanges == 1  \* accepted requests explored on the other session
MaxLLMFailures == 2     \* failing model calls explored in one run

NO_KEY_REPLY == "OPENAI_API_KEY is not set on the backend."

\* build_system_prompt(PORTFOLIO_DATA): the persona text with the portfolio data embedded
PORTFOLIO_SYSTEM_PROMPT == "You are Yazhini AI"

\* seq[-n:] for n > 0
LastN(seq, n) == SubSeq(seq, Max(1, Len(seq) - n + 1), Len(seq))

\* the list generate_reply hands to llm.invoke
langchain_messages(history, message) ==
    <<SystemMessage(PORTFOLIO_SYSTEM_PROMPT)>>
    \o HistoryMessages(LastN(history, 20))
    \o <<HumanMessage(message)>>

\* the truncation that keeps the oldest messages instead of the newest
KeepLast_KeepsOldest(history) ==
    IF Len(history) > MAX_HISTORY_PER_SESSION
    THEN SubSeq(history, 1, MAX_HISTORY_PER_SESSION)
    ELSE history

\* the truncation with an odd cap, one message short of ten exchanges
KeepLast_OddCap(history) ==
    IF Len(history) > MAX_HISTORY_PER_SESSION - 1
    THEN LastN(history, MAX_HISTORY_PER_SESSION - 1)
    ELSE history

\* what chat() leaves stored after the two appends
KeepLast(history) ==
    IF Len(history) > MAX_HISTORY_PER_SESSION
    THEN LastN(history, MAX_HISTORY_PER_SESSION)
    ELSE history

SimpleQuota(sid) == IF sid = "s1" THEN MaxExchanges ELSE MaxOtherExchanges

\* the n-th accepted message of a session names its position
SimpleMessage(n) == "Project question " \o ToString(n)

OFF_TOPIC == "What is the weather?"

SimpleMessages == {SimpleMessage(n) : n \in 1..(MaxExchanges + 1)} \cup {OFF_TOPIC}

\* os.getenv("OPENAI_API_KEY") at the time of a request
SimpleKeys == {None, "", "sk-key"}

\* model calls that have failed so far, counted from the apologies recorded
FailuresSoFar ==
    LET F[s \in SUBSET SessionIds] ==
            IF s = {} THEN 0
            ELSE LET sid == CHOOSE x \in s : TRUE IN
                 Cardinality({i \in 1..Len(appended[sid]) : appended[sid][i].content = APOLOGY})
                 + F[s \ {sid}]
    IN F[SessionIds]

SimpleInit ==
    /\ sessions = <<>>
    /\ appended = [s \in SessionIds |-> <<>>]
    /\ ret = None
    /\ rag_pipeline = NoPipeline
    /\ pc = "b_idle"
    /\ request = NoRequest /\ conversation_history = <<>> /\ query_vector = <<>>
    /\ chunks = <<>> /\ messages = <<>> /\ reply = None /\ response = NoResponse
    /\ calls = NoCalls /\ failure = NoFailure /\ nreq = 0
    /\ PureIdle
    /\ tasks = <<>> /\ loop = 0 /\ order = <<>> /\ retriever = NoRetriever
    /\ session_history = <<>>

\* POST /chat arrives
Simple_Receive(sid, message) ==
    /\ pc \in {"b_idle", "b_done"}
    /\ Len(appended[sid]) < 2 * SimpleQuota(sid)
    /\ message \in {SimpleMessage(Len(appended[sid]) \div 2 + 1), OFF_TOPIC}
    /\ request' = [sessionId |-> sid, message |-> message]
    /\ messages' = <<>> /\ reply' = None /\ response' = NoResponse
    /\ calls' = NoCalls /\ failure' = NoFailure
    /\ pc' = "b_key"
    /\ UNCHANGED <<memVars, ret, rag_pipeline, conversation_history, query_vector, chunks, nreq,
                   pureVars, raceVars, retriever, session_history>>

\* if not os.getenv("OPENAI_API_KEY"): answer with the notice
Simple_CheckKey(key) ==
    /\ pc = "b_key"
    /\ IF Falsy(key)
       THEN response' = ChatResponse(NO_KEY_REPLY) /\ pc' = "b_done"
       ELSE response' = response /\ pc' = "b_guardrail"
    /\ UNCHANGED <<memVars, ret, rag_pipeline, request, conversation_history, query_vector, chunks,
                   messages, reply, calls, failure, nreq, pureVars, raceVars, retriever,
                   session_history>>

\* if not is_about_yazhini(request.message): answer with the fallback, record nothing
Simple_Reject ==
    /\ pc = "b_guardrail"
    /\ ~backend_is_about_yazhini(request.message)
    /\ response' = ChatResponse(get_fallback_response)
    /\ pc' = "b_done"
    /\ UNCHANGED <<memVars, ret, rag_pipeline, request, conversation_history, query_vector, chunks,
                   messages, reply, calls, failure, nreq, pureVars, raceVars, retriever,
                   session_history>>

\* the message passes the guardrail: get or initialise the session's list
Simple_Accept ==
    /\ pc = "b_guardrail"
    /\ backend_is_about_yazhini(request.message)
    /\ LET sid == request.sessionId IN
       session_history' =
           IF sid \in DOMAIN session_history THEN session_history
           ELSE [s \in DOMAIN session_history \cup {sid} |->
                    IF s = sid THEN <<>> ELSE session_history[s]]
    /\ pc' = "b_generate"
    /\ UNCHANGED <<memVars, ret, rag_pipeline, request, conversation_history, query_vector, chunks,
                   messages, reply, response, calls, failure, nreq, pureVars, raceVars, retriever>>

\* generate_reply that lets the model's error escape to the framework
Simple_Generate_Propagates(outcome) ==
    /\ pc = "b_generate"
    /\ outcome.kind = "raise" => FailuresSoFar < MaxLLMFailures
    /\ messages' = langchain_messages(session_history[request.sessionId], request.message)
    /\ calls' = [calls EXCEPT !.llm = @ + 1]
    /\ IF outcome.kind = "content"
       THEN reply' = outcome.content /\ pc' = "b_record" /\ UNCHANGED <<failure, response>>
       ELSE /\ failure' = [stage |-> "llm", exc |-> outcome.exc]
            /\ response' = HTTPException(500, "Internal Server Error", None)
            /\ pc' = "b_done"
            /\ UNCHANGED reply
    /\ UNCHANGED <<memVars, ret, rag_pipeline, request, conversation_history, query_vector, chunks,
                   nreq, pureVars, raceVars, retriever, session_history>>

\* generate_reply: the message list, one llm.invoke, the content or the apology
Simple_Generate(outcome) ==
    /\ pc = "b_generate"
    /\ outcome.kind = "raise" => FailuresSoFar < MaxLLMFailures
    /\ messages' = langchain_messages(session_history[request.sessionId], request.message)
    /\ calls' = [calls EXCEPT !.llm = @ + 1]
    /\ IF outcome.kind = "content"
       THEN reply' = outcome.content /\ UNCHANGED failure
       ELSE reply' = APOLOGY /\ failure' = [stage |-> "llm", exc |-> outcome.exc]
    /\ pc' = "b_record"
    /\ UNCHANGED <<memVars, ret, rag_pipeline, request, conversation_history, query_vector, chunks,
                   response, nreq, pureVars, raceVars, retriever, session_history>>

\* the two appends, the truncation and the response
Simple_Record ==
    /\ pc = "b_record"
    /\ LET sid == request.sessionId
           user == [role |-> "user", content |-> request.message]
           assistant == [role |-> "assistant", content |-> reply]
           history == Append(Append(session_history[sid], user), assistant) IN
        /\ session_history' = [session_history EXCEPT ![sid] = KeepLast(history)]
        /\ appended' = [appended EXCEPT ![sid] = Append(Append(@, user), assistant)]
    /\ response' = ChatResponse(reply)
    /\ pc' = "b_done"
    /\ UNCHANGED <<sessions, ret, rag_pipeline, request, conversation_history, query_vector, chunks,
                   messages, reply, calls, failure, nreq, pureVars, raceVars, retriever>>

SimpleNext ==
    \/ \E sid \in SessionIds, message \in SimpleMessages : Simple_Receive(sid, message)
    \/ \E key \in SimpleKeys : Simple_CheckKey(key)
    \/ Simple_Reject
    \/ Simple_Accept
    \/ \E outcome \in LLMOutcomes : Simple_Generate(outcome)
    \/ Simple_Record

SpecSimple == SimpleInit /\ [][SimpleNext]_vars

\* no request of the simple backend is between its arrival and its response
SimpleQuiet == pc \in {"b_idle", "b_done"}

\* C21: in the simple backend a failure of the model call is caught inside
\* generate_reply: the reply is the fixed apology, returned as a normal
\* successful response, and the request never fails.
C21_SimpleFailureGivesApology ==
    /\ response.status \in {0, 200}
    /\ failure.stage = "llm" =>
        /\ pc \in {"b_record", "b_done"}
        /\ reply = APOLOGY
        /\ pc = "b_done" => response = ChatResponse(APOLOGY)

C21_Witness ==
    /\ pc = "b_done"
    /\ failure.stage = "llm"
    /\ response = ChatResponse(APOLOGY)
    /\ calls.llm = 1

\* C22: after every completed request of the simple backend each session's
\* stored history has at most 20 messages, and once more than 20 have been
\* appended it is exactly the 20 most recently appended, in their order.
C22_SimpleHistoryCapped ==
    SimpleQuiet =>
        \A sid \in DOMAIN session_history :
            LET stored == session_history[sid]
                all == appended[sid] IN
            /\ Len(stored) <= MAX_HISTORY_PER_SESSION
            /\ Len(stored) = Min(Len(all), MAX_HISTORY_PER_SESSION)
            /\ \A i \in 1..Len(stored) : stored[i] = all[Len(all) - Len(stored) + i]

C22_Witness ==
    /\ pc = "b_done"
    /\ "s1" \in DOMAIN session_history
    /\ Len(appended["s1"]) = 22
    /\ Len(session_history["s1"]) = 20
    /\ session_history["s1"][1].content = SimpleMessage(2)

\* a history of whole exchanges: user, assistant, user, assistant, ...
Alternating(history) ==
    /\ Len(history) % 2 = 0
    /\ \A i \in 1..Len(history) :
          history[i].role = (IF i % 2 = 1 THEN "user" ELSE "assistant")

MaxGets == 4            \* calls of the two getters explored in one run

\* environments of the calls: a variable is unset, set, or set to another value
SingletonEnvs ==
    [PINECONE_API_KEY : {None, "pc-key"},
     PINECONE_INDEX_NAME : {None, "resume-index", "other-index"},
     OPENAI_API_KEY : {None, "sk-key"}]

NoEnv == [PINECONE_API_KEY |-> None, PINECONE_INDEX_NAME |-> None, OPENAI_API_KEY |-> None]

SingletonInit ==
    /\ MemIdle
    /\ ret = [value |-> NoPipeline, error |-> None]
    /\ rag_pipeline = NoPipeline
    /\ pc = "off" /\ request = NoRequest
    /\ conversation_history = <<>> /\ query_vector = <<>> /\ chunks = <<>> /\ messages = <<>>
    /\ reply = None /\ response = NoResponse /\ calls = NoCalls /\ failure = NoFailure /\ nreq = 0
    /\ fn = None /\ arg = NoEnv
    /\ ExtIdle

\* pipeline, error = get_rag_pipeline()
Singleton_GetPipeline(env, ctor) ==
    /\ nreq < MaxGets
    /\ nreq' = nreq + 1
    /\ fn' = "get_rag_pipeline" /\ arg' = env
    /\ LET r == get_rag_pipeline(rag_pipeline, env, ctor) IN
        /\ rag_pipeline' = r.global
        /\ ret' = [value |-> r.pipeline, error |-> r.error]
    /\ UNCHANGED <<memVars, pc, request, conversation_history, query_vector, chunks, messages,
                   reply, response, calls, failure, extVars>>

\* retriever, error = get_retriever()
Singleton_GetRetriever(env, ctor) ==
    /\ nreq < MaxGets
    /\ nreq' = nreq + 1
    /\ fn' = "get_retriever" /\ arg' = env
    /\ LET r == get_retriever(retriever, env, ctor) IN
        /\ retriever' = r.global
        /\ ret' = [value |-> r.retriever, error |-> r.error]
    /\ UNCHANGED <<memVars, rag_pipeline, pc, request, conversation_history, query_vector, chunks,
                   messages, reply, response, calls, failure, raceVars, session_history>>

SingletonNext ==
    \/ \E env \in SingletonEnvs, ctor \in CtorOutcomes : Singleton_GetPipeline(env, ctor)
    \/ \E env \in SingletonEnvs, ctor \in CtorOutcomes : Singleton_GetRetriever(env, ctor)

SpecSingleton == SingletonInit /\ [][SingletonNext]_vars

\* what one call of a getter may do to its singleton and return
LazyCall(before, after, unset) ==
    IF before # unset
    THEN after = before /\ ret' = [value |-> before, error |-> None]
    ELSE \/ ret'.error # None /\ ret'.value = unset /\ after = unset
         \/ ret'.error = None /\ ret'.value = after /\ after.set

=============================================================================
